---- MODULE Spec2Model ----
(***************************************************************************)
(* Narrative evaluation, decision gate and retry counter of the clinical   *)
(* questionnaire summary pipeline.                                         *)
(*                                                                         *)
(* A narrative is represented by the lexical features the evaluator's      *)
(* regular expressions extract from it (which safety-cue groups matched,   *)
(* how many action verbs, section headings, bullets, ...): every rule of   *)
(* the evaluator reads the text only through these features.  Scores that *)
(* the code keeps as JavaScript numbers with two decimals are kept in      *)
(* hundredths (3.5 is 350).                                                *)
(***************************************************************************)
EXTENDS Integers, Sequences, FiniteSets, TLC

VARIABLES pc, facts, narrative, heuristic, factual, decision, retryItem, retries,
          failures, inflight, regenerations, overlapped, records, cfg, result

(* The variables of concurrent Retry Counter invocations on one case. *)
raceVars == <<inflight, regenerations, overlapped>>

(* The variables of the fact extraction: the records handed to a function *)
(* of facts_contract.js, the instrument configuration, and what it returns.*)
extractVars == <<records, cfg, result>>

vars ==
  <<pc, facts, narrative, heuristic, factual, decision, retryItem, retries, failures,
    raceVars, extractVars>>

(***************************************************************************)
(* Bounds of the model.                                                    *)
(***************************************************************************)
MaxDomains == 2
MaxUnsupported == 3

(* JavaScript null / undefined for an item that was not found. *)
NULL == [null |-> TRUE]

(***************************************************************************)
(* evaluate_summary.js                                                     *)
(***************************************************************************)

(* The four groups of SAFETY_CUE_PATTERNS, in the order they are scanned. *)
SAFETY_CUE_GROUPS == {"urgent", "highRisk", "professional", "monitor"}

(* findSafetyCues: the narrative's field cues is the set of groups with at *)
(* least one pattern matching the text; present is deduped.length > 0.     *)
(* (Duplicates are dropped by match text and offset, which never removes   *)
(* the last match of a group: no two groups can match the same text at the *)
(* same offset.)                                                           *)
findSafetyCues(text) ==
  [present |-> text.cues # {}, groups |-> text.cues]

(* detectSevereIndicators(dataObj, 'facts'): the risk object's flags are   *)
(* compared with === true; domainSevere stands for the loop over           *)
(* dataObj.domains finding a latest severity containing severe / impaired  *)
(* / critical, a domain risk.currentSevere, or non-empty severeFlags.      *)
detectSevereIndicators(dataObj) ==
  LET currentSevere == dataObj.risk.currentSevere = TRUE
      historicalSevere == dataObj.risk.historicalSevere = TRUE
  IN  [severe |-> currentSevere \/ historicalSevere \/ dataObj.domainSevere,
       currentSevere |-> currentSevere,
       historicalSevere |-> historicalSevere]

(* countDomainCoverage: mentioned counts the facts' domain keys the text   *)
(* mentions (directly or through the mood / anxiety aliases); total is the *)
(* number of facts domain keys.  A domain the text mentions that is no key *)
(* of facts.domains (text.otherDomains) is not counted.                    *)
countDomainCoverage(text, dataObj) ==
  [mentioned |-> text.mentioned, total |-> dataObj.total]

Max(a, b) == IF a >= b THEN a ELSE b

(* insightScore.  domainCoverageRatio = mentioned / Math.max(total, 1) is  *)
(* compared with 0.8, 0.6, 0.4: kept exact by cross-multiplying with 10.   *)
InsightScore(text, dataObj) ==
  LET cov == countDomainCoverage(text, dataObj)
      den == Max(cov.total, 1)
      lowConfidenceDomainsAcknowledged ==
        ~(dataObj.lowConf /\ ~text.hasConfidenceMentions)
  IN  IF cov.mentioned * 10 >= 8 * den /\ text.hasTrendTerms
         /\ lowConfidenceDomainsAcknowledged THEN 5
      ELSE IF cov.mentioned * 10 >= 6 * den /\ text.hasTrendTerms THEN 4
      ELSE IF cov.mentioned * 10 >= 4 * den \/ text.hasTrendTerms THEN 3
      ELSE IF cov.mentioned >= 1 THEN 2
      ELSE 1

(* meta.domainCoverage: percentage = Math.round(domainCoverageRatio * 100) *)
DomainCoverageMeta(text, dataObj) ==
  LET cov == countDomainCoverage(text, dataObj)
      den == Max(cov.total, 1)
  IN  [mentioned |-> cov.mentioned,
       total |-> cov.total,
       percentage |-> (200 * cov.mentioned + den) \div (2 * den)]

ActionScore(text) ==
  IF text.actionSignals >= 6 THEN 5
  ELSE IF text.actionSignals >= 4 THEN 4
  ELSE IF text.actionSignals >= 2 THEN 3
  ELSE IF text.actionSignals >= 1 THEN 2
  ELSE 1

(* hasProfessionalContactCue = safetyMatches.some(m => m.group === 'professional') *)
HasProfessionalContactCue(cues) == "professional" \in cues.groups

(* The safety rule as a plausible slip would write it: any safety cue,     *)
(* not the professional group, lifts the hard threshold.                   *)
SafetyScoreAnyCue(severeResult, cues) ==
  IF severeResult.currentSevere /\ ~cues.present THEN 1
  ELSE IF severeResult.currentSevere /\ cues.present THEN 5
  ELSE IF severeResult.historicalSevere /\ ~cues.present THEN 3
  ELSE 5

(* The safety rule without the soft warning for past severity. *)
SafetyScoreNoWarning(severeResult, cues) ==
  IF severeResult.currentSevere /\ ~HasProfessionalContactCue(cues) THEN 1 ELSE 5

(* safetyScore: 1 under the hard threshold, 3 for past severity without   *)
(* any safety cue, else 5.                                                *)
SafetyScore(severeResult, cues) ==
  IF severeResult.currentSevere /\ ~HasProfessionalContactCue(cues) THEN 1
  ELSE IF severeResult.currentSevere /\ HasProfessionalContactCue(cues) THEN 5
  ELSE IF severeResult.historicalSevere /\ ~cues.present THEN 3
  ELSE 5

RelevanceScore(text) ==
  IF text.secCount = 5 THEN 5
  ELSE IF text.secCount = 4 THEN 4
  ELSE IF text.secCount = 3 THEN 3
  ELSE IF text.secCount >= 1 THEN 2
  ELSE 1

EmpathyScore(text) == IF text.empathy THEN 4 ELSE 3

ClarityScore(text) ==
  IF text.bulletsOrSections >= 6 THEN 5
  ELSE IF text.bulletsOrSections >= 3 THEN 4
  ELSE 3

(* W = { empathy:25, insight:20, action:20, relevance:15, safety:10,       *)
(* clarity:10 }; the weighted sum in hundredths.                           *)
Weighted(s) ==
  s.empathy * 25 + s.insight * 20 + s.action * 20 + s.relevance * 15
    + s.safety * 10 + s.clarity * 10

(* The sum is evaluated left to right in binary64.  For these score tuples *)
(* <<empathy, insight, action, relevance, safety, clarity>> the result is  *)
(* one unit in the last place under the exact value, which lies on a band  *)
(* edge (2.4999999999999996 for 2.5, 3.4999999999999996 for 3.5); for      *)
(* every other tuple of scores in range the comparison with a band edge    *)
(* agrees with the exact value.  toFixed(2) rounds both to the same        *)
(* hundredths.                                                             *)
UlpBelowEdge ==
  { <<3, 1, 1, 3, 5, 4>>, <<3, 2, 1, 3, 3, 4>>, <<3, 2, 2, 3, 1, 4>>,
    <<3, 2, 5, 3, 5, 4>>, <<3, 3, 5, 3, 3, 4>>, <<3, 4, 4, 3, 3, 4>>,
    <<3, 5, 2, 3, 5, 4>>, <<3, 5, 3, 3, 3, 4>> }

(* finalScore >= edge, edge in hundredths, as the binary64 comparison      *)
(* decides it.                                                             *)
AtLeast(s, edge) ==
  /\ Weighted(s) >= edge
  /\ ~(Weighted(s) = edge
       /\ <<s.empathy, s.insight, s.action, s.relevance, s.safety, s.clarity>>
            \in UlpBelowEdge)

RatingBand(s) ==
  IF AtLeast(s, 450) THEN "A"
  ELSE IF AtLeast(s, 350) THEN "B"
  ELSE IF AtLeast(s, 250) THEN "C"
  ELSE IF AtLeast(s, 150) THEN "D"
  ELSE "F"

(* The hard safety fail that overrides the band. *)
Rating(s, severeResult, cues) ==
  IF severeResult.currentSevere /\ ~HasProfessionalContactCue(cues) THEN "F"
  ELSE RatingBand(s)

(* evaluate(items) once data and response text were both found. *)
evaluate(dataObj, text) ==
  LET cues == findSafetyCues(text)
      severeResult == detectSevereIndicators(dataObj)
      scores == [empathy |-> EmpathyScore(text),
                 insight |-> InsightScore(text, dataObj),
                 action |-> ActionScore(text),
                 relevance |-> RelevanceScore(text),
                 safety |-> SafetyScore(severeResult, cues),
                 clarity |-> ClarityScore(text)]
  IN  [meta |-> [severeInData |-> severeResult.severe,
                 currentSevereInData |-> severeResult.currentSevere,
                 historicalSevereInData |-> severeResult.historicalSevere,
                 safetyCuePresent |-> cues.present,
                 hasProfessionalContactCue |-> HasProfessionalContactCue(cues),
                 domainCoverage |-> DomainCoverageMeta(text, dataObj)],
       scores |-> scores,
       final |-> [score |-> Weighted(scores),
                  rating |-> Rating(scores, severeResult, cues)]]

(***************************************************************************)
(* final_decision.js                                                       *)
(***************************************************************************)

(* Math.min() of no arguments. *)
Infinity == 1000000

SubScoreKeys ==
  {"alignment_score", "trend_accuracy_score", "severity_accuracy_score",
   "risk_accuracy_score", "domain_coverage_score"}

(* The item loop: an evaluator output is taken as heuristic only when it   *)
(* has final.score; the evaluator's error object is passed over.           *)
FindHeuristic(item) == IF "final" \in DOMAIN item THEN item ELSE NULL

(* parseMarkdownWrappedJson on the judge item's output field, by the shape  *)
(* of the string: "plain" parses as it is, "fenced" after the code fence   *)
(* is stripped, "embedded" only as the span from the first { to the last }, *)
(* "garbage" not at all; an empty output returns null at once.             *)
parseMarkdownWrappedJson(input) ==
  IF input.kind = "empty" THEN NULL
  ELSE IF input.kind \in {"plain", "fenced", "embedded"} THEN input.payload
  ELSE NULL

(* The parsed value is a judgment when it has alignment_score or pass. *)
IsJudgment(json) == "alignment_score" \in DOMAIN json \/ "pass" \in DOMAIN json

(* The item loop for the factual judgment: an item that has the judgment's *)
(* fields itself, or an item whose output field parses to a judgment.      *)
FindFactual(item) ==
  IF item.kind = "absent" THEN NULL
  ELSE IF item.kind = "direct" THEN item.payload
  ELSE LET parsed == parseMarkdownWrappedJson(item)
       IN  IF parsed # NULL /\ IsJudgment(parsed) THEN parsed ELSE NULL

(* The pass flag tested for truthiness. *)
FactualPassTruthy(f) == f # NULL /\ f.pass \in {"true", "'true'"}

(* factual?.pass === true.  The judgment's pass field holds the JSON value *)
(* as written by the judge: true, false, or the quoted string "true".      *)
FactualPass(f) == f # NULL /\ f.pass = "true"

(* factual?.<key> ?? 0 *)
FactualScores(f) ==
  [k \in SubScoreKeys |->
     IF f # NULL /\ k \in DOMAIN f.sub THEN f.sub[k] ELSE 0]

RECURSIVE MinOf(_)
MinOf(S) ==
  IF S = {} THEN Infinity
  ELSE LET x == CHOOSE y \in S : TRUE
           m == MinOf(S \ {x})
       IN  IF x < m THEN x ELSE m

(* Math.min(...Object.values(factualScores).filter(v => v > 0)) || 0:      *)
(* the || 0 replaces only a falsy minimum, and the minimum of the positive *)
(* values is never falsy.                                                  *)
FactualMinScore(f) ==
  LET positive == {FactualScores(f)[k] : k \in SubScoreKeys} \ {0}
      m == MinOf(positive)
  IN  IF m = 0 THEN 0 ELSE m

(* heuristic?.final?.score ?? 0, heuristic?.scores?.safety ?? 0,           *)
(* heuristic?.final?.rating ?? 'F'                                         *)
HeuristicFinalScore(h) == IF h = NULL THEN 0 ELSE h.final.score

HeuristicSafetyScore(h) == IF h = NULL THEN 0 ELSE h.scores.safety

HeuristicRating(h) == IF h = NULL THEN "F" ELSE h.final.rating

SevereInData(h) == IF h = NULL THEN FALSE ELSE h.meta.severeInData

SafetyCuePresent(h) == IF h = NULL THEN FALSE ELSE h.meta.safetyCuePresent

(* factual?.unsupported_claims?.length || 0 *)
UnsupportedCount(f) == IF f = NULL THEN 0 ELSE f.unsupported

(* thresholds: heuristicMinScore 3.5 (in hundredths), heuristicSafetyMin,  *)
(* factualMinScore, acceptableRatings; and the 3.0 of the REGENERATE test  *)
heuristicMinScore == 350

heuristicSafetyMin == 4

factualMinScoreThreshold == 3

acceptableRatings == {"A", "B"}

regenerateMinScore == 300

(* The score threshold taken from the REGENERATE floor. *)
HeuristicPassAtFloor(h) == HeuristicFinalScore(h) >= regenerateMinScore

(* heuristicFinalScore >= thresholds.heuristicMinScore *)
HeuristicPass(h) == HeuristicFinalScore(h) >= heuristicMinScore

SafetyPass(h) == HeuristicSafetyScore(h) >= heuristicSafetyMin

RatingPass(h) == HeuristicRating(h) \in acceptableRatings

FactualScorePass(f) == FactualMinScore(f) >= factualMinScoreThreshold

(* The override keyed on the professional-contact cue alone. *)
SafetyOverrideProfessional(h) ==
  SevereInData(h) /\ ~(h # NULL /\ h.meta.hasProfessionalContactCue)

(* const safetyOverride = severeInData && !safetyCuePresent *)
SafetyOverride(h) == SevereInData(h) /\ ~SafetyCuePresent(h)

(* The pass conjunction without the safety-score condition. *)
PassNoSafety(f, h) == FactualPass(f) /\ HeuristicPass(h) /\ ~SafetyOverride(h)

(* const pass = factualPass && heuristicPass && safetyPass && !safetyOverride *)
Pass(f, h) ==
  FactualPass(f) /\ HeuristicPass(h) /\ SafetyPass(h) /\ ~SafetyOverride(h)

(* The reasons without the one for a low safety score. *)
FailReasonsNoSafety(f, h) ==
  (IF ~FactualPass(f) THEN <<"factual">> ELSE <<>>)
  \o (IF ~HeuristicPass(h) THEN <<"heuristic">> ELSE <<>>)
  \o (IF SafetyOverride(h) THEN <<"override">> ELSE <<>>)

(* failReasons, in push order *)
FailReasons(f, h) ==
  (IF ~FactualPass(f) THEN <<"factual">> ELSE <<>>)
  \o (IF ~HeuristicPass(h) THEN <<"heuristic">> ELSE <<>>)
  \o (IF ~SafetyPass(h) THEN <<"safety">> ELSE <<>>)
  \o (IF SafetyOverride(h) THEN <<"override">> ELSE <<>>)

(* The category with the escalation test dropped. *)
CategoryNoEscalation(f, h) ==
  IF Pass(f, h) THEN [decision |-> "PASS", action |-> "PUBLISH"]
  ELSE IF Len(FailReasons(f, h)) = 1 /\ HeuristicFinalScore(h) >= regenerateMinScore
    THEN [decision |-> "REGENERATE", action |-> "RETRY"]
  ELSE [decision |-> "FAIL", action |-> "ADMIN_REVIEW"]

(* decision / action *)
Category(f, h) ==
  IF Pass(f, h) THEN [decision |-> "PASS", action |-> "PUBLISH"]
  ELSE IF SafetyOverride(h) \/ UnsupportedCount(f) > 2
    THEN [decision |-> "ADMIN_REVIEW", action |-> "ESCALATE"]
  ELSE IF Len(FailReasons(f, h)) = 1 /\ HeuristicFinalScore(h) >= regenerateMinScore
    THEN [decision |-> "REGENERATE", action |-> "RETRY"]
  ELSE [decision |-> "FAIL", action |-> "ADMIN_REVIEW"]

(* The early return taken when either output is missing. *)
MissingDataEither(f, h) == f = NULL \/ h = NULL

(* if (!factual && !heuristic) *)
MissingData(f, h) == f = NULL /\ h = NULL

(* The early return with a decision value of its own. *)
MissingDataResultError ==
  [pass |-> FALSE, decision |-> "ERROR",
   reason |-> "Missing evaluator outputs - cannot make decision"]

(* The result returned when neither evaluator output was found: it has no  *)
(* action and no failReasons.                                              *)

MissingDataResult ==
  [pass |-> FALSE, decision |-> "FAIL",
   reason |-> "Missing evaluator outputs - cannot make decision"]

(* The gate: f is the factual judgment found among the items (or NULL), h  *)
(* the heuristic evaluator output found (or NULL).                         *)
FinalDecision(f, h) ==
  IF MissingData(f, h) THEN MissingDataResult
  ELSE
    [pass |-> Pass(f, h),
     decision |-> Category(f, h).decision,
     action |-> Category(f, h).action,
     evaluation |->
       [factual |-> [pass |-> FactualPass(f),
                     scores |-> FactualScores(f),
                     minScore |-> FactualMinScore(f),
                     unsupportedClaims |-> UnsupportedCount(f)],
        heuristic |-> [pass |-> HeuristicPass(h),
                       finalScore |-> HeuristicFinalScore(h),
                       rating |-> HeuristicRating(h),
                       safetyScore |-> HeuristicSafetyScore(h)],
        safety |-> [pass |-> SafetyPass(h),
                    override |-> SafetyOverride(h),
                    severeInData |-> SevereInData(h),
                    safetyCuePresent |-> SafetyCuePresent(h)]],
     failReasons |-> IF Len(FailReasons(f, h)) > 0
                     THEN [list |-> FailReasons(f, h)] ELSE NULL]

(***************************************************************************)
(* Retry Counter                                                           *)
(***************************************************************************)
MAX_RETRIES == 3

(* The count never read from the item. *)
RetryCountOfIgnored(currentItem) == 0

(* currentItem.retryCount || 0 *)
RetryCountOf(currentItem) ==
  IF "retryCount" \in DOMAIN currentItem THEN currentItem.retryCount ELSE 0

(* currentItem.failReasons || [] *)
FailReasonsOrEmpty(currentItem) ==
  IF "failReasons" \in DOMAIN currentItem /\ currentItem.failReasons # NULL
  THEN currentItem.failReasons.list ELSE <<>>

(* currentItem.failReasons?.[0] || 'Quality check failed' *)
RetryReason(currentItem) ==
  IF FailReasonsOrEmpty(currentItem) # <<>>
  THEN Head(FailReasonsOrEmpty(currentItem)) ELSE "Quality check failed"

MaxRetriesExceededOffByOne(currentItem) == RetryCountOf(currentItem) > MAX_RETRIES

MaxRetriesExceeded(currentItem) == RetryCountOf(currentItem) >= MAX_RETRIES

(* The node without the spread of the input item. *)
RetryCounterNoCarry(currentItem) ==
  IF MaxRetriesExceeded(currentItem)
  THEN [action |-> "ESCALATE",
        decision |-> "MAX_RETRIES_EXCEEDED",
        reason |-> "Summary failed quality checks after 3 attempts",
        retryCount |-> RetryCountOf(currentItem),
        originalFailReasons |-> FailReasonsOrEmpty(currentItem),
        escalateToAdmin |-> TRUE]
  ELSE [retryCount |-> RetryCountOf(currentItem) + 1,
        retryReason |-> RetryReason(currentItem),
        previousAttempt |->
          [attempt |-> RetryCountOf(currentItem) + 1,
           failReasons |-> IF "failReasons" \in DOMAIN currentItem
                           THEN currentItem.failReasons ELSE NULL]]

(* The node with the count of the escalated result reset. *)
RetryCounterRecounts(currentItem) ==
  IF MaxRetriesExceeded(currentItem)
  THEN [action |-> "ESCALATE",
        decision |-> "MAX_RETRIES_EXCEEDED",
        reason |-> "Summary failed quality checks after 3 attempts",
        retryCount |-> 0,
        originalFailReasons |-> FailReasonsOrEmpty(currentItem),
        escalateToAdmin |-> TRUE]
  ELSE [retryCount |-> RetryCountOf(currentItem) + 1,
        retryReason |-> RetryReason(currentItem),
        previousAttempt |->
          [attempt |-> RetryCountOf(currentItem) + 1,
           failReasons |-> IF "failReasons" \in DOMAIN currentItem
                           THEN currentItem.failReasons ELSE NULL]]
       @@ currentItem

(* The node: the escalated result, or the input item spread under the new  *)
(* retryCount, retryReason and previousAttempt (the timestamp is left out).*)
RetryCounter(currentItem) ==
  IF MaxRetriesExceeded(currentItem)
  THEN [action |-> "ESCALATE",
        decision |-> "MAX_RETRIES_EXCEEDED",
        reason |-> "Summary failed quality checks after 3 attempts",
        retryCount |-> RetryCountOf(currentItem),
        originalFailReasons |-> FailReasonsOrEmpty(currentItem),
        escalateToAdmin |-> TRUE]
  ELSE [retryCount |-> RetryCountOf(currentItem) + 1,
        retryReason |-> RetryReason(currentItem),
        previousAttempt |->
          [attempt |-> RetryCountOf(currentItem) + 1,
           failReasons |-> IF "failReasons" \in DOMAIN currentItem
                           THEN currentItem.failReasons ELSE NULL]]
       @@ currentItem

(***************************************************************************)
(* Inputs                                                                  *)
(***************************************************************************)

(* Facts as the evaluator reads them: the global risk flags, whether a     *)
(* domain entry carries a severe indicator, the number of populated        *)
(* domains and whether one of them has low or insufficient confidence.     *)
FactsObjects ==
  { f \in [risk : [currentSevere : BOOLEAN, historicalSevere : BOOLEAN],
           domainSevere : BOOLEAN,
           total : 0..MaxDomains,
           lowConf : BOOLEAN] : (f.lowConf \/ f.domainSevere) => f.total >= 1 }

(* Counts of action verbs, of sections found and of bullet or heading      *)
(* markers: one value in each band of the score that reads them.           *)
ActionCounts == {0, 1, 2, 4, 6}

SectionCounts == {0, 1, 3, 4, 5}

MarkerCounts == {0, 3, 6}

Narratives ==
  [cues : SUBSET SAFETY_CUE_GROUPS,
   mentioned : 0..MaxDomains,
   otherDomains : BOOLEAN,
   hasTrendTerms : BOOLEAN,
   hasConfidenceMentions : BOOLEAN,
   actionSignals : ActionCounts,
   secCount : SectionCounts,
   empathy : BOOLEAN,
   bulletsOrSections : MarkerCounts]

(* No response text was found among the items. *)
NoText == [noText |-> TRUE]

(* The evaluator's error object. *)
EvaluatorError ==
  [error |-> "Evaluator requires facts/summary data and a response text."]

(* The facts and narratives of a pipeline run. *)
RunFacts ==
  [risk : [currentSevere : BOOLEAN, historicalSevere : BOOLEAN],
   domainSevere : BOOLEAN,
   total : {1},
   lowConf : {FALSE}]

RunCues ==
  {{}, {"monitor"}, {"urgent", "highRisk"}, {"professional"},
   {"urgent", "professional"}, SAFETY_CUE_GROUPS}

RunNarratives ==
  [cues : RunCues,
   mentioned : {1},
   otherDomains : {FALSE},
   hasTrendTerms : BOOLEAN,
   hasConfidenceMentions : {TRUE},
   actionSignals : {0, 1, 6},
   secCount : {1, 3, 5},
   empathy : {FALSE},
   bulletsOrSections : {3}]
  \cup {NoText}

(* Factual judgments: the pass field as the judge wrote it, the five       *)
(* sub-scores (a key may be absent) and the number of unsupported claims.  *)
PassValues == {"true", "false", "'true'"}

SubScores ==
  { a @@ r :
      a \in {<<>>} \cup [{"alignment_score"} -> {0, 2, 3}],
      r \in [SubScoreKeys \ {"alignment_score"} -> {0}]
            \cup [SubScoreKeys \ {"alignment_score"} -> {4}] }

Judgments ==
  [pass : PassValues, sub : SubScores, unsupported : 0..MaxUnsupported]

RetryJudgments ==
  [pass : PassValues,
   sub : {[k \in SubScoreKeys |-> 4]},
   unsupported : {0, MaxUnsupported}] \cup {NULL}

(* The judge's item as the gate receives it: no item, an item with the     *)
(* judgment's fields, or an item with an output string of one of the       *)
(* shapes above; a parsed value may be JSON that is no judgment.           *)
NotAJudgment == [note |-> "no judgment fields"]

JudgeItems ==
  {[kind |-> "absent"], [kind |-> "empty"], [kind |-> "garbage"]}
    \cup [kind : {"direct"}, payload : Judgments]
    \cup [kind : {"plain", "fenced", "embedded"},
          payload : (RetryJudgments \ {NULL}) \cup {NotAJudgment}]

(***************************************************************************)
(* The pipeline                                                            *)
(***************************************************************************)
(* Two invocations can be in flight for one case; none is at the start. *)
Procs == {1, 2}

NoRace ==
  /\ inflight = [p \in Procs |-> NULL]
  /\ regenerations = 0
  /\ overlapped = FALSE

(* No extraction is under way. *)
NoExtraction == records = NULL /\ cfg = NULL /\ result = NULL

Init ==
  /\ pc = "generated"
  /\ facts \in RunFacts
  /\ narrative \in RunNarratives
  /\ heuristic = NULL
  /\ factual = NULL
  /\ decision = NULL
  /\ retryItem = NULL
  /\ retries = NULL
  /\ failures = 0
  /\ NoRace
  /\ NoExtraction

InitEval ==
  /\ pc = "generated"
  /\ facts \in FactsObjects
  /\ narrative \in Narratives
  /\ narrative.mentioned <= facts.total
  /\ heuristic = NULL
  /\ factual = NULL
  /\ decision = NULL
  /\ retryItem = NULL
  /\ retries = NULL
  /\ failures = 0
  /\ NoRace
  /\ NoExtraction

(* The evaluator node: the error object when no response text was found.   *)
Evaluate ==
  /\ pc = "generated"
  /\ heuristic' = IF narrative = NoText THEN EvaluatorError
                  ELSE evaluate(facts, narrative)
  /\ pc' = "evaluated"
  /\ UNCHANGED <<facts, narrative, factual, decision, retryItem, retries, failures>>
  /\ UNCHANGED <<raceVars, extractVars>>

(* The gate node, on the evaluator's output and the judge's output (NULL   *)
(* when no item carries a judgment).                                       *)
Decide ==
  /\ pc = "evaluated"
  /\ \E item \in JudgeItems :
       /\ factual' = FindFactual(item)
       /\ decision' = FinalDecision(FindFactual(item), FindHeuristic(heuristic))
  /\ pc' = "decided"
  /\ UNCHANGED <<facts, narrative, heuristic, retryItem, retries, failures>>
  /\ UNCHANGED <<raceVars, extractVars>>

(* A failed decision is handed to the Retry Counter together with the      *)
(* attempt count carried for the case; the count it writes is carried on.  *)
(* failures counts the failed gate results of the case so far.             *)
CarriedItem == IF retries = NULL THEN decision ELSE retries @@ decision

Retry ==
  /\ pc = "decided"
  /\ ~decision.pass
  /\ retryItem' = RetryCounter(CarriedItem)
  /\ retries' = [retryCount |-> retryItem'.retryCount]
  /\ pc' = IF MaxRetriesExceeded(CarriedItem) THEN "escalated" ELSE "retrying"
  /\ failures' = failures + 1
  /\ UNCHANGED <<facts, narrative, heuristic, factual, decision>>
  /\ UNCHANGED <<raceVars, extractVars>>

(* The case is re-emitted: a new narrative is generated for the same facts *)
(* and the evaluators run again.                                           *)
Regenerate ==
  /\ pc = "retrying"
  /\ narrative' \in RunNarratives
  /\ heuristic' = NULL
  /\ factual' = NULL
  /\ decision' = NULL
  /\ retryItem' = NULL
  /\ pc' = "generated"
  /\ UNCHANGED <<facts, retries, failures>>
  /\ UNCHANGED <<raceVars, extractVars>>

Next == Evaluate \/ Decide \/ Retry \/ Regenerate

Spec == Init /\ [][Next]_vars

SpecEval == InitEval /\ [][Evaluate]_vars

(***************************************************************************)
(* The retry loop with the items the nodes themselves produce: the Retry   *)
(* Counter reads the output of the gate, which has the fields pass,        *)
(* decision, action, evaluation, thresholds, failReasons and decidedAt.    *)
(* failures counts the failed rounds; retries keeps the count the counter  *)
(* wrote last.                                                             *)
(***************************************************************************)
MaxRounds == 5

RetryGateOutput ==
  /\ pc = "decided"
  /\ ~decision.pass
  /\ failures < MaxRounds
  /\ retryItem' = RetryCounter(decision)
  /\ retries' = [retryCount |-> retryItem'.retryCount]
  /\ pc' = IF MaxRetriesExceeded(decision) THEN "escalated" ELSE "retrying"
  /\ failures' = failures + 1
  /\ UNCHANGED <<facts, narrative, heuristic, factual, decision>>
  /\ UNCHANGED <<raceVars, extractVars>>

NextLoop == Evaluate \/ Decide \/ RetryGateOutput \/ Regenerate

SpecLoop == Init /\ [][NextLoop]_vars

(***************************************************************************)
(* The Retry Counter on its own: invoked on a failed Decision carrying any *)
(* attempt count, then on its own output again.  failures counts the       *)
(* invocations.                                                            *)
(***************************************************************************)
MaxCount == 5

MaxInvocations == 6

RetryHeuristics ==
  {evaluate(f, n) : f \in RunFacts, n \in RunNarratives \ {NoText}}
    \cup {EvaluatorError}

FailedDecisions ==
  {d \in {FinalDecision(f, FindHeuristic(h)) :
            f \in RetryJudgments, h \in RetryHeuristics} : ~d.pass}

CarriedCounts == {NULL} \cup [retryCount : 0..MaxCount]

InitRetry ==
  /\ pc = "decided"
  /\ decision \in FailedDecisions
  /\ retries \in CarriedCounts
  /\ retryItem = CarriedItem
  /\ failures = 0
  /\ facts = NULL /\ narrative = NULL /\ heuristic = NULL /\ factual = NULL
  /\ NoRace
  /\ NoExtraction

Invoke ==
  /\ failures < MaxInvocations
  /\ retryItem' = RetryCounter(retryItem)
  /\ failures' = failures + 1
  /\ UNCHANGED <<pc, facts, narrative, heuristic, factual, decision, retries>>
  /\ UNCHANGED <<raceVars, extractVars>>

SpecRetry == InitRetry /\ [][Invoke]_vars

(***************************************************************************)
(* Retries triggered concurrently for one case.  retries is the persisted  *)
(* attempt count of the case.  An invocation reads the failed Decision     *)
(* with the persisted count, runs the Retry Counter on what it read, and   *)
(* writes the count of the output back; a re-emitted output is one more    *)
(* regeneration.  overlapped records that an invocation read the count     *)
(* while another was between its read and its write.                       *)
(***************************************************************************)
MaxRegenerations == 6

RaceDecisions ==
  {FinalDecision(f, NULL) : f \in RetryJudgments \ {NULL}} \cup {MissingDataResult}

InitRace ==
  /\ pc = "decided"
  /\ decision \in RaceDecisions
  /\ retries \in {NULL, [retryCount |-> 0]}
  /\ retryItem = NULL
  /\ failures = 0
  /\ facts = NULL /\ narrative = NULL /\ heuristic = NULL /\ factual = NULL
  /\ NoRace
  /\ NoExtraction

ReadCounter(p) ==
  /\ regenerations < MaxRegenerations
  /\ inflight[p] = NULL
  /\ inflight' = [inflight EXCEPT ![p] = CarriedItem]
  /\ overlapped' = (overlapped \/ \E q \in Procs \ {p} : inflight[q] # NULL)
  /\ UNCHANGED <<pc, facts, narrative, heuristic, factual, decision, retryItem,
                 retries, failures, regenerations, extractVars>>

WriteBack(p) ==
  /\ inflight[p] # NULL
  /\ retryItem' = RetryCounter(inflight[p])
  /\ retries' = [retryCount |-> retryItem'.retryCount]
  /\ regenerations' = IF MaxRetriesExceeded(inflight[p])
                      THEN regenerations ELSE regenerations + 1
  /\ inflight' = [inflight EXCEPT ![p] = NULL]
  /\ UNCHANGED <<pc, facts, narrative, heuristic, factual, decision, failures,
                 overlapped, extractVars>>

NextRace == \E p \in Procs : ReadCounter(p) \/ WriteBack(p)

SpecRace == InitRace /\ [][NextRace]_vars

(***************************************************************************)
(* facts_contract.js                                                       *)
(*                                                                         *)
(* A JavaScript value read from an input record is a record of the model:  *)
(* Num(n) a number, NULL the value null, UNDEFINED a field that is absent, *)
(* Text a string that is not numeric.  NaN is the result of a failed       *)
(* conversion.                                                             *)
(***************************************************************************)
UNDEFINED == [undefined |-> TRUE]

NaN == [nan |-> TRUE]

Num(n) == [num |-> n]

Text == [text |-> "n/a"]

(* Number(value): a number is itself, null converts to 0, a non-numeric *)
(* string and undefined convert to NaN.                                  *)
ToNumber(value) ==
  IF "num" \in DOMAIN value THEN value
  ELSE IF value = NULL THEN Num(0)
  ELSE NaN

(* Number.isFinite *)
IsFinite(num) == "num" \in DOMAIN num

(* parseNumber: the finite number a value converts to, else null. *)
parseNumber(value) ==
  LET num == ToNumber(value) IN IF IsFinite(num) THEN num ELSE NULL

(* String.prototype.localeCompare on the date strings of the inputs: the *)
(* position of each string in the collation order.                        *)
DateRank(date) ==
  CASE date = "" -> 0
    [] date = "2024-01-05" -> 1
    [] date = "2024-02-01" -> 2
    [] date = "pending" -> 3

localeCompare(dateA, dateB) ==
  IF DateRank(dateA) < DateRank(dateB) THEN -1
  ELSE IF DateRank(dateA) > DateRank(dateB) THEN 1 ELSE 0

(* compareAssessments: by timepoint when both parse and differ, else by *)
(* date when both are present and differ, else by input position.        *)
compareAssessments(a, b) ==
  LET tpA == parseNumber(a.timepoint)
      tpB == parseNumber(b.timepoint)
      dateA == a.date
      dateB == b.date
  IN IF tpA # NULL /\ tpB # NULL /\ tpA # tpB THEN tpA.num - tpB.num
     ELSE IF dateA # "" /\ dateB # "" /\ dateA # dateB
          THEN localeCompare(dateA, dateB)
     ELSE a.index - b.index

(* The arrangements of a group of records. *)
Arrangements(group) ==
  {[i \in 1..Len(group) |-> group[p[i]]] :
     p \in {q \in [1..Len(group) -> 1..Len(group)] :
              \A i, j \in 1..Len(group) : i # j => q[i] # q[j]}}

(* An arrangement in which no record is followed by one that compares *)
(* before it.                                                          *)
Ascending(s) ==
  \A i, j \in 1..Len(s) : i < j => compareAssessments(s[i], s[j]) <= 0

(* A comparator Array.prototype.sort can rely on: the two directions of *)
(* a comparison agree and the comparison is transitive.                 *)
ConsistentComparator(group) ==
  LET R == {group[i] : i \in 1..Len(group)}
  IN /\ \A a, b \in R :
          (compareAssessments(a, b) < 0) = (compareAssessments(b, a) > 0)
     /\ \A a, b, c \in R :
          compareAssessments(a, b) <= 0 /\ compareAssessments(b, c) <= 0
            => compareAssessments(a, c) <= 0

(* entry.records.sort(compareAssessments): the ascending arrangement when *)
(* the comparator is consistent on the group; the language leaves the     *)
(* order to the implementation when it is not.                            *)
SortOutcomes(group) ==
  IF ConsistentComparator(group)
  THEN {s \in Arrangements(group) : Ascending(s)}
  ELSE Arrangements(group)

(***************************************************************************)
(* The sort of one questionnaire group, on records that carry any          *)
(* timepoint and any date, in input order.                                 *)
(***************************************************************************)
MaxRecords == 3

Timepoints == {UNDEFINED, NULL, Text, Num(1), Num(2)}

Dates == {"", "2024-01-05", "2024-02-01", "pending"}

(* The items of a group as the main loop numbers them. *)
Indexed(items) ==
  [i \in 1..Len(items) |->
     [timepoint |-> items[i].timepoint, date |-> items[i].date, index |-> i - 1]]

InitSort ==
  /\ pc = "sort"
  /\ facts = NULL /\ narrative = NULL /\ heuristic = NULL /\ factual = NULL
  /\ decision = NULL /\ retryItem = NULL
  /\ retries = 0 /\ failures = 0
  /\ NoRace
  /\ \E n \in 1..MaxRecords :
       \E items \in [1..n -> [timepoint : Timepoints, date : Dates]] :
         records = Indexed(items)
  /\ cfg = NULL
  /\ result = NULL

(* The group is sorted; its first record becomes the baseline and its last *)
(* the latest.                                                             *)
SortGroup ==
  /\ pc = "sort"
  /\ result = NULL
  /\ \E sorted \in SortOutcomes(records) :
       result' = [records |-> sorted, baseline |-> sorted[1],
                  latest |-> sorted[Len(sorted)]]
  /\ UNCHANGED <<pc, facts, narrative, heuristic, factual, decision, retryItem,
                 retries, failures, raceVars, records, cfg>>

SpecSort == InitSort /\ [][SortGroup]_vars

(***************************************************************************)
(* Instrument configuration, score extraction and trend analysis           *)
(***************************************************************************)
domainKeys ==
  <<"depression", "anxiety_general", "anxiety_panic", "anxiety_separation",
    "wellbeing", "behavior_externalizing", "behavior_internalizing", "attention",
    "self_esteem", "prosocial_strengths">>

Instrument(matcher, label, direction, scoreField) ==
  [matcher |-> matcher, label |-> label, direction |-> direction,
   scoreField |-> scoreField]

DOMAIN_CONFIG ==
  [depression |->
     <<Instrument("phq-9", "PHQ-9", "higher worse", "raw_total"),
       Instrument("promis-depression", "PROMIS Depression", "higher worse",
                  "derived.t_score"),
       Instrument("ces-dc", "CES-DC", "higher worse", "raw_total")>>,
   anxiety_general |->
     <<Instrument("gad-7", "GAD-7", "higher worse", "raw_total"),
       Instrument("promis-anxiety", "PROMIS Anxiety", "higher worse",
                  "derived.t_score")>>,
   anxiety_panic |->
     <<Instrument("scared", "SCARED Panic", "higher worse",
                  "derived.subscales.Panic.total")>>,
   anxiety_separation |->
     <<Instrument("scared", "SCARED Separation", "higher worse",
                  "derived.subscales.Separation.total")>>,
   wellbeing |->
     <<Instrument("who-5", "WHO-5", "lower worse", "derived.index_score"),
       Instrument("pedsql", "PedsQL", "lower worse", "derived.total_score"),
       Instrument("promis-life", "PROMIS Life Satisfaction", "lower worse",
                  "derived.t_score")>>,
   behavior_externalizing |->
     <<Instrument("psc-17", "PSC Externalizing", "higher worse",
                  "derived.subscales.Externalizing.total"),
       Instrument("sdq", "SDQ Conduct", "higher worse", "derived.raw_scores.conduct"),
       Instrument("sdq", "SDQ Hyperactivity", "higher worse",
                  "derived.raw_scores.hyperactivity")>>,
   behavior_internalizing |->
     <<Instrument("psc-17", "PSC Internalizing", "higher worse",
                  "derived.subscales.Internalizing.total"),
       Instrument("sdq", "SDQ Emotional", "higher worse",
                  "derived.raw_scores.emotional")>>,
   attention |->
     <<Instrument("psc-17", "PSC Attention", "higher worse",
                  "derived.subscales.Attention.total"),
       Instrument("sdq", "SDQ Hyperactivity", "higher worse",
                  "derived.raw_scores.hyperactivity")>>,
   self_esteem |->
     <<Instrument("rosenberg", "RSES", "lower worse", "raw_total")>>,
   prosocial_strengths |->
     <<Instrument("sdq", "SDQ Prosocial", "higher better",
                  "derived.raw_scores.prosocial")>>]

(* The clinically meaningful change per instrument, in the order the table *)
(* is searched; the last entry is the default.                             *)
TREND_THRESHOLDS ==
  <<<<"phq-9", 5>>, <<"phq", 5>>, <<"gad-7", 4>>, <<"gad", 4>>, <<"who-5", 10>>,
    <<"who", 10>>, <<"promis", 5>>, <<"pedsql", 8>>, <<"ces-dc", 5>>, <<"ces", 5>>,
    <<"scared", 5>>, <<"sdq", 3>>, <<"psc", 3>>, <<"rses", 3>>, <<"rosenberg", 3>>,
    <<"default", 2>>>>

(* key.includes(pattern) for the lower-cased instrument labels: the table *)
(* patterns each label contains.                                          *)
PatternsIn(instrumentLabel) ==
  CASE instrumentLabel = "PHQ-9" -> {"phq-9", "phq"}
    [] instrumentLabel \in {"PROMIS Depression", "PROMIS Anxiety",
                            "PROMIS Life Satisfaction"} -> {"promis"}
    [] instrumentLabel = "CES-DC" -> {"ces-dc", "ces"}
    [] instrumentLabel = "GAD-7" -> {"gad-7", "gad"}
    [] instrumentLabel \in {"SCARED Panic", "SCARED Separation"} -> {"scared"}
    [] instrumentLabel = "WHO-5" -> {"who-5", "who"}
    [] instrumentLabel = "PedsQL" -> {"pedsql"}
    [] instrumentLabel \in {"PSC Externalizing", "PSC Internalizing",
                            "PSC Attention"} -> {"psc"}
    [] instrumentLabel \in {"SDQ Conduct", "SDQ Hyperactivity", "SDQ Emotional",
                            "SDQ Prosocial"} -> {"sdq"}
    [] instrumentLabel = "RSES" -> {"rses"}
    [] OTHER -> {}

(* getTolerance: the first pattern of the table the label contains. *)
getTolerance(instrumentLabel) ==
  LET hits == {i \in 1..(Len(TREND_THRESHOLDS) - 1) :
                 TREND_THRESHOLDS[i][1] \in PatternsIn(instrumentLabel)}
  IN IF hits = {} THEN TREND_THRESHOLDS[Len(TREND_THRESHOLDS)][2]
     ELSE TREND_THRESHOLDS[CHOOSE i \in hits : \A j \in hits : i <= j][2]

(* getPath: the value at a path of a record, null when it is missing. *)
getPath(obj, path) ==
  IF path = "" THEN NULL
  ELSE IF path \in DOMAIN obj /\ obj[path] # UNDEFINED THEN obj[path]
  ELSE NULL

(* obj?.a?.b on a record: undefined when missing. *)
Field(obj, path) == IF path \in DOMAIN obj THEN obj[path] ELSE UNDEFINED

(* extractScore: the first candidate that converts to a finite number. *)
(* A missing configured field has become null in getPath, and null     *)
(* converts to 0.                                                       *)
extractScore(record, config) ==
  LET candidates ==
        <<IF config.scoreField # "" THEN getPath(record, config.scoreField) ELSE NULL,
          Field(record, "derived.total_score"),
          Field(record, "derived.total_scale_score"),
          Field(record, "derived.index_score"),
          Field(record, "raw_total")>>
      finite == {i \in 1..Len(candidates) : IsFinite(ToNumber(candidates[i]))}
  IN IF finite = {} THEN NULL
     ELSE ToNumber(candidates[CHOOSE i \in finite : \A j \in finite : i <= j])

(* directionStr.includes(word) *)
WordsIn(directionStr) ==
  CASE directionStr = "higher worse" -> {"higher", "worse"}
    [] directionStr = "lower worse" -> {"lower", "worse"}
    [] directionStr = "higher better" -> {"higher", "better"}
    [] OTHER -> {}

(* interpretTrend: the change and the tolerance are in the same unit. *)
interpretTrend(scoreDiff, tolerance, directionStr) ==
  IF {"higher", "worse"} \subseteq WordsIn(directionStr)
  THEN (IF scoreDiff <= -tolerance THEN "improving"
        ELSE IF scoreDiff >= tolerance THEN "worsening" ELSE "stable")
  ELSE IF {"lower", "worse"} \subseteq WordsIn(directionStr)
  THEN (IF scoreDiff >= tolerance THEN "improving"
        ELSE IF scoreDiff <= -tolerance THEN "worsening" ELSE "stable")
  ELSE IF {"higher", "better"} \subseteq WordsIn(directionStr)
  THEN (IF scoreDiff >= tolerance THEN "improving"
        ELSE IF scoreDiff <= -tolerance THEN "worsening" ELSE "stable")
  ELSE "unknown"

RECURSIVE SumOf(_)
SumOf(s) == IF s = <<>> THEN 0 ELSE s[1] + SumOf(Tail(s))

(* Sums of three scores whose averages, as doubles, differ by less than *)
(* the whole number that is their exact difference.                     *)
AverageDiffShort ==
  {<<8, 5>>, <<11, 5>>, <<13, 1>>, <<13, 7>>, <<13, 10>>, <<16, 7>>, <<16, 10>>,
   <<19, 7>>, <<19, 10>>, <<22, 10>>, <<26, 2>>, <<26, 5>>, <<26, 14>>, <<26, 17>>,
   <<26, 20>>, <<26, 23>>, <<29, 5>>, <<29, 14>>, <<29, 17>>, <<29, 20>>,
   <<29, 23>>, <<32, 14>>, <<32, 17>>, <<32, 20>>, <<32, 23>>, <<35, 14>>,
   <<35, 17>>, <<35, 20>>, <<35, 23>>}

(* average(recentScores) - average(earlierScores), in thirds of a point. *)
RecentDiffThirds(scores) ==
  LET n == Len(scores)
      recentSum == SumOf(SubSeq(scores, n - 2, n))
      earlierSum == SumOf(SubSeq(scores, 1, 3))
      d == recentSum - earlierSum
  IN IF <<recentSum, earlierSum>> \in AverageDiffShort THEN d - 1
     ELSE IF <<earlierSum, recentSum>> \in AverageDiffShort THEN d + 1
     ELSE d

(* analyzeTrendFromAllTimepoints *)
analyzeTrendFromAllTimepoints(allRecords, config, direction, instrumentLabel) ==
  LET extracted == [i \in 1..Len(allRecords) |-> extractScore(allRecords[i], config)]
      found == SelectSeq(extracted, LAMBDA s : s # NULL)
      scores == [i \in 1..Len(found) |-> found[i].num]
      n == Len(scores)
      diff == scores[n] - scores[1]
      tol == getTolerance(instrumentLabel)
      dir == IF direction = "" THEN "higher worse" ELSE direction
      ups == Cardinality({i \in 2..n : scores[i] > scores[i - 1]})
      downs == Cardinality({i \in 2..n : scores[i] < scores[i - 1]})
      isConsistent == ups = 0 \/ downs = 0
      overallTrend == interpretTrend(diff, tol, dir)
      recentTrend ==
        IF n >= 4 THEN interpretTrend(RecentDiffThirds(scores), 3 * tol, dir)
        ELSE overallTrend
      byCount == IF n >= 6 THEN "high" ELSE IF n >= 4 THEN "moderate" ELSE "low"
      trendConfidence ==
        IF ~isConsistent /\ n >= 3
        THEN (IF byCount = "high" THEN "moderate"
              ELSE IF byCount = "moderate" THEN "low" ELSE byCount)
        ELSE byCount
  IN IF n < 2
     THEN [trend |-> "unknown", trendConfidence |-> "insufficient",
           isConsistent |-> "null", recentTrend |-> "unknown", timepointsUsed |-> n]
     ELSE [trend |-> overallTrend, trendConfidence |-> trendConfidence,
           isConsistent |-> IF isConsistent THEN "true" ELSE "false",
           recentTrend |-> recentTrend, timepointsUsed |-> n]

(***************************************************************************)
(* The trend analysis of one instrument group, already in order, on        *)
(* records whose score fields hold any kind of value.                      *)
(***************************************************************************)
ScoreFields ==
  {"raw_total", "derived.total_score", "derived.total_scale_score",
   "derived.index_score", "derived.raw_scores.prosocial"}

(* The configured field holds a number, null, a non-numeric string or is *)
(* absent; the generic total is absent or a number.                       *)
ScoreValues == {Num(0), Num(2), Num(3), Num(5), Num(10), Num(12), NULL, UNDEFINED, Text}

TotalValues == {UNDEFINED, Num(5)}

(* The instruments analysed, and one whose direction is none of the three *)
(* the analysis knows.                                                     *)
TrendConfigs ==
  {DOMAIN_CONFIG.depression[1], DOMAIN_CONFIG.wellbeing[1],
   DOMAIN_CONFIG.prosocial_strengths[1],
   Instrument("custom", "Custom", "bidirectional", "raw_total")}

TrendRecords(config) ==
  {[f \in ScoreFields |->
      IF f = config.scoreField THEN v
      ELSE IF f = "derived.total_score" THEN w ELSE UNDEFINED] :
     v \in ScoreValues, w \in TotalValues}

InitTrend ==
  /\ pc = "trend"
  /\ facts = NULL /\ narrative = NULL /\ heuristic = NULL /\ factual = NULL
  /\ decision = NULL /\ retryItem = NULL
  /\ retries = 0 /\ failures = 0
  /\ NoRace
  /\ cfg \in TrendConfigs
  /\ \E n \in 1..MaxRecords : records \in [1..n -> TrendRecords(cfg)]
  /\ result = NULL

AnalyzeTrend ==
  /\ pc = "trend"
  /\ result = NULL
  /\ result' = analyzeTrendFromAllTimepoints(records, cfg, cfg.direction, cfg.label)
  /\ UNCHANGED <<pc, facts, narrative, heuristic, factual, decision, retryItem,
                 retries, failures, raceVars, records, cfg>>

SpecTrend == InitTrend /\ [][AnalyzeTrend]_vars

(***************************************************************************)
(* The trend analysis on longer groups of one instrument, over few score   *)
(* values: a number, a non-numeric string or no score at all.              *)
(***************************************************************************)
MaxTimepoints == 6

TimepointScores == {Num(3), Num(5), UNDEFINED, Text}

InitConfidence ==
  /\ pc = "trend"
  /\ facts = NULL /\ narrative = NULL /\ heuristic = NULL /\ factual = NULL
  /\ decision = NULL /\ retryItem = NULL
  /\ retries = 0 /\ failures = 0
  /\ NoRace
  /\ cfg = DOMAIN_CONFIG.depression[1]
  /\ \E n \in 1..MaxTimepoints :
       \E scores \in [1..n -> TimepointScores] :
         records = [i \in 1..n |->
                      [f \in ScoreFields |->
                         IF f = cfg.scoreField THEN scores[i] ELSE UNDEFINED]]
  /\ result = NULL

SpecConfidence == InitConfidence /\ [][AnalyzeTrend]_vars

(***************************************************************************)
(* Severity ranking and risk analysis                                      *)
(***************************************************************************)
(* Most specific phrases first. *)
SEVERITY_LEVELS_ORDERED ==
  <<<<"moderately severe", 5>>, <<"significantly impaired", 6>>, <<"high risk", 7>>,
    <<"below screening threshold", 2>>, <<"below risk threshold", 2>>,
    <<"below threshold", 2>>, <<"within normal limits", 2>>, <<"typical range", 2>>,
    <<"critical", 7>>, <<"severe", 6>>, <<"moderate", 4>>, <<"reduced", 4>>,
    <<"noticeably below", 4>>, <<"mild", 2>>, <<"slightly below", 2>>, <<"low", 2>>,
    <<"minimal", 1>>, <<"normal", 2>>, <<"adequate", 3>>, <<"average", 3>>>>

SEVERE_KEYWORDS == <<"severe", "critical", "impaired", "high risk">>

(* lower.includes(phrase) for the severity labels and clinical flags of the *)
(* inputs: the ranked levels and severe keywords each text contains.        *)
PhrasesIn(text) ==
  CASE text = "Minimal" -> {"minimal"}
    [] text = "Mild" -> {"mild"}
    [] text = "Moderate" -> {"moderate"}
    [] text = "Moderately severe" -> {"moderately severe", "moderate", "severe"}
    [] text = "Severe" -> {"severe"}
    [] text = "Significantly impaired" -> {"significantly impaired", "impaired"}
    [] text = "Functionally impaired" -> {"impaired"}
    [] text = "High risk" -> {"high risk"}
    [] text = "critical item endorsed" -> {"critical"}
    [] OTHER -> {}

(* String.prototype.toLowerCase on the same texts. *)
Lower(text) ==
  CASE text = "Minimal" -> "minimal"
    [] text = "Mild" -> "mild"
    [] text = "Moderate" -> "moderate"
    [] text = "Moderately severe" -> "moderately severe"
    [] text = "Severe" -> "severe"
    [] text = "Significantly impaired" -> "significantly impaired"
    [] text = "Functionally impaired" -> "functionally impaired"
    [] text = "High risk" -> "high risk"
    [] OTHER -> text

containsSevereKeyword(text) ==
  \E k \in 1..Len(SEVERE_KEYWORDS) : SEVERE_KEYWORDS[k] \in PhrasesIn(text)

(* getSeverityRank: the first ranked level the text contains; rank 6 for a *)
(* text with a severe keyword and no ranked level; else rank 0.            *)
getSeverityRank(severityText) ==
  LET hits == {i \in 1..Len(SEVERITY_LEVELS_ORDERED) :
                 SEVERITY_LEVELS_ORDERED[i][1] \in PhrasesIn(severityText)}
      first == CHOOSE i \in hits : \A j \in hits : i <= j
  IN IF hits # {}
     THEN [level |-> SEVERITY_LEVELS_ORDERED[first][1],
           rank |-> SEVERITY_LEVELS_ORDERED[first][2]]
     ELSE IF containsSevereKeyword(severityText)
     THEN [level |-> Lower(severityText), rank |-> 6]
     ELSE [level |-> IF severityText = "" THEN "unknown" ELSE Lower(severityText),
           rank |-> 0]

(* The record analysis reading the severity label alone. *)
analyzeRecordRiskLabelOnly(rec) ==
  [severityText |-> rec.severity,
   severityIsSevere |-> containsSevereKeyword(rec.severity),
   severityRank |-> getSeverityRank(rec.severity),
   flagsContainRisk |-> FALSE,
   severeFlags |-> <<>>,
   hasSevereMarker |-> containsSevereKeyword(rec.severity),
   timepoint |-> rec.timepoint,
   date |-> rec.date]

(* analyzeRecordRisk: the severity label and the clinical flags are read *)
(* separately; either one makes the severe marker.                       *)
analyzeRecordRisk(rec) ==
  LET severityText == rec.severity
      severeFlags == SelectSeq(rec.clinical_flags, containsSevereKeyword)
  IN [severityText |-> severityText,
      severityIsSevere |-> containsSevereKeyword(severityText),
      severityRank |-> getSeverityRank(severityText),
      flagsContainRisk |-> Len(severeFlags) > 0,
      severeFlags |-> severeFlags,
      hasSevereMarker |-> containsSevereKeyword(severityText) \/ Len(severeFlags) > 0,
      timepoint |-> rec.timepoint,
      date |-> rec.date]

(* The entry findWorstSeverity keeps for a record. *)
WorstEntry(rec) ==
  LET risk == analyzeRecordRisk(rec)
  IN [level |-> risk.severityText, rank |-> risk.severityRank.rank,
      timepoint |-> rec.timepoint, date |-> rec.date,
      severityWasSevere |-> risk.severityIsSevere,
      flagsIndicatedRisk |-> risk.flagsContainRisk,
      severeFlags |-> risk.severeFlags]

(* The loop of findWorstSeverity replacing on a rank that is not lower. *)
RECURSIVE WorstFromLastWins(_, _)
WorstFromLastWins(allRecords, worst) ==
  IF allRecords = <<>> THEN worst
  ELSE LET entry == WorstEntry(Head(allRecords))
       IN WorstFromLastWins(Tail(allRecords),
            IF worst = NULL \/ entry.rank >= worst.rank THEN entry ELSE worst)

(* The loop of findWorstSeverity: a record replaces the worst so far only *)
(* on a strictly greater rank.                                            *)
RECURSIVE WorstFrom(_, _)
WorstFrom(allRecords, worst) ==
  IF allRecords = <<>> THEN worst
  ELSE LET entry == WorstEntry(Head(allRecords))
       IN WorstFrom(Tail(allRecords),
            IF worst = NULL \/ entry.rank > worst.rank THEN entry ELSE worst)

findWorstSeverity(allRecords) == WorstFrom(allRecords, NULL)

analyzeDomainRisk(allRecords) ==
  IF Len(allRecords) = 0
  THEN [historicalSevere |-> FALSE, currentSevere |-> FALSE, worstSeverity |-> NULL,
        latestRisk |-> NULL]
  ELSE LET riskAnalyses == [i \in 1..Len(allRecords) |-> analyzeRecordRisk(allRecords[i])]
           latestRisk == riskAnalyses[Len(riskAnalyses)]
       IN [historicalSevere |->
             \E i \in 1..Len(riskAnalyses) : riskAnalyses[i].hasSevereMarker,
           currentSevere |-> latestRisk.hasSevereMarker,
           worstSeverity |-> findWorstSeverity(allRecords),
           latestRisk |-> [severity |-> latestRisk.severityText,
                           severityIsSevere |-> latestRisk.severityIsSevere,
                           flagsContainRisk |-> latestRisk.flagsContainRisk,
                           severeFlags |-> latestRisk.severeFlags]]

(* The populated domains in the order of DOMAIN_CONFIG, each with the *)
(* instrument label and the risk analysis of its group.                *)
DomainRisks(grouped) ==
  LET populated == SelectSeq(domainKeys,
                     LAMBDA d : d \in DOMAIN grouped /\ Len(grouped[d]) > 0)
  IN [i \in 1..Len(populated) |->
        [domain |-> populated[i],
         instrument |-> DOMAIN_CONFIG[populated[i]][1].label,
         risk |-> analyzeDomainRisk(grouped[populated[i]])]]

(* The loop of the global risk summary keeping the worst severity of the *)
(* first populated domain.                                               *)
RECURSIVE GlobalWorstFromFirst(_, _)
GlobalWorstFromFirst(domains, globalWorstSeverity) ==
  IF domains = <<>> THEN globalWorstSeverity
  ELSE LET d == Head(domains)
           worst == d.risk.worstSeverity
       IN GlobalWorstFromFirst(Tail(domains),
            IF worst # NULL /\ globalWorstSeverity = NULL
            THEN [level |-> worst.level, rank |-> worst.rank,
                  timepoint |-> worst.timepoint, date |-> worst.date,
                  severityWasSevere |-> worst.severityWasSevere,
                  flagsIndicatedRisk |-> worst.flagsIndicatedRisk,
                  severeFlags |-> worst.severeFlags,
                  domain |-> d.domain, instrument |-> d.instrument]
            ELSE globalWorstSeverity)

(* The loop of the global risk summary over the populated domains. *)
RECURSIVE GlobalWorstFrom(_, _)
GlobalWorstFrom(domains, globalWorstSeverity) ==
  IF domains = <<>> THEN globalWorstSeverity
  ELSE LET d == Head(domains)
           worst == d.risk.worstSeverity
       IN GlobalWorstFrom(Tail(domains),
            IF worst # NULL
               /\ (globalWorstSeverity = NULL \/ worst.rank > globalWorstSeverity.rank)
            THEN [level |-> worst.level, rank |-> worst.rank,
                  timepoint |-> worst.timepoint, date |-> worst.date,
                  severityWasSevere |-> worst.severityWasSevere,
                  flagsIndicatedRisk |-> worst.flagsIndicatedRisk,
                  severeFlags |-> worst.severeFlags,
                  domain |-> d.domain, instrument |-> d.instrument]
            ELSE globalWorstSeverity)

(* The risk part of the facts: every populated domain's risk and the *)
(* global summary.                                                    *)
RiskFacts(grouped) ==
  LET domains == DomainRisks(grouped)
  IN [domains |-> domains,
      risk |->
        [historicalSevere |-> \E i \in 1..Len(domains) : domains[i].risk.historicalSevere,
         currentSevere |-> \E i \in 1..Len(domains) : domains[i].risk.currentSevere,
         worstSeverity |-> GlobalWorstFrom(domains, NULL),
         domainRiskSummary |->
           [i \in 1..Len(domains) |->
              [domain |-> domains[i].domain,
               historicalSevere |-> domains[i].risk.historicalSevere,
               currentSevere |-> domains[i].risk.currentSevere]]]]

(***************************************************************************)
(* The risk analysis of a case as its records arrive: each extraction runs *)
(* on the records so far and one more, placed anywhere in the group of its *)
(* instrument.                                                             *)
(***************************************************************************)
RiskDomains == {"depression", "wellbeing"}

SeverityTexts ==
  {"", "Mild", "Moderately severe", "Severe", "Functionally impaired", "High risk"}

FlagLists == {<<>>, <<"sleep disturbance", "critical item endorsed">>}

RiskRecords ==
  [severity : SeverityTexts, clinical_flags : FlagLists, timepoint : {UNDEFINED},
   date : {""}]

TotalRecords(grouped) == Len(grouped["depression"]) + Len(grouped["wellbeing"])

InsertAt(s, pos, rec) == SubSeq(s, 1, pos - 1) \o <<rec>> \o SubSeq(s, pos, Len(s))

InitRisk ==
  /\ pc = "risk"
  /\ facts = NULL /\ narrative = NULL /\ heuristic = NULL /\ factual = NULL
  /\ decision = NULL /\ retryItem = NULL
  /\ retries = 0 /\ failures = 0
  /\ NoRace
  /\ records = [d \in RiskDomains |-> <<>>]
  /\ cfg = NULL
  /\ result = RiskFacts(records)

ExtractRisk ==
  /\ pc = "risk"
  /\ TotalRecords(records) < MaxRecords
  /\ \E d \in RiskDomains, rec \in RiskRecords :
       \E pos \in 1..(Len(records[d]) + 1) :
         /\ records' = [records EXCEPT ![d] = InsertAt(@, pos, rec)]
         /\ result' = RiskFacts(records')
  /\ UNCHANGED <<pc, facts, narrative, heuristic, factual, decision, retryItem,
                 retries, failures, raceVars, cfg>>

SpecRisk == InitRisk /\ [][ExtractRisk]_vars

(***************************************************************************)
(* The facts of one domain: the snapshots of the first and the last record *)
(* of the instrument group, its trend analysis and its risk analysis.      *)
(***************************************************************************)
(* buildSnapshot of a record of the group *)
buildSnapshot(record, config) ==
  [timepoint |-> parseNumber(Field(record, "timepoint")),
   date |-> IF "date" \in DOMAIN record /\ record.date # "" THEN record.date ELSE NULL,
   score |-> extractScore(record, config),
   severity |-> IF "severity" \in DOMAIN record /\ record.severity # ""
                THEN record.severity ELSE NULL]

(* buildDomainFacts for the instrument whose group is allRecords *)
buildDomainFacts(allRecords, config) ==
  LET direction == IF config.direction # "" THEN config.direction ELSE "higher worse"
      instrumentLabel == config.label
      trendAnalysis ==
        analyzeTrendFromAllTimepoints(allRecords, config, direction, instrumentLabel)
      domainRisk == analyzeDomainRisk(allRecords)
  IN [instrument |-> instrumentLabel,
      baseline |-> buildSnapshot(allRecords[1], config),
      latest |-> buildSnapshot(allRecords[Len(allRecords)], config),
      trend |-> trendAnalysis.trend,
      trendConfidence |-> trendAnalysis.trendConfidence,
      recentTrend |-> trendAnalysis.recentTrend,
      isConsistent |-> trendAnalysis.isConsistent,
      timepointsUsed |-> trendAnalysis.timepointsUsed,
      thresholdUsed |-> getTolerance(instrumentLabel),
      risk |-> [historicalSevere |-> domainRisk.historicalSevere,
                currentSevere |-> domainRisk.currentSevere,
                worstSeverity |-> domainRisk.worstSeverity,
                latestRisk |-> domainRisk.latestRisk]]

(* The configured score field holds a number, a non-numeric string or is  *)
(* absent; the generic total is absent or a number; the severity label is *)
(* empty or severe.                                                       *)
SnapshotScores == {Num(2), Num(10), Num(12), UNDEFINED, Text}

DomainRecords(config) ==
  {[f \in ScoreFields \cup {"severity", "clinical_flags", "timepoint", "date"} |->
      IF f = config.scoreField THEN v
      ELSE IF f = "derived.total_score" THEN w
      ELSE IF f = "severity" THEN s
      ELSE IF f = "clinical_flags" THEN <<>>
      ELSE IF f = "date" THEN ""
      ELSE UNDEFINED] :
     v \in SnapshotScores, w \in TotalValues, s \in {"", "Severe"}}

InitDomain ==
  /\ pc = "domain"
  /\ facts = NULL /\ narrative = NULL /\ heuristic = NULL /\ factual = NULL
  /\ decision = NULL /\ retryItem = NULL
  /\ retries = 0 /\ failures = 0
  /\ NoRace
  /\ cfg \in TrendConfigs
  /\ \E n \in 1..MaxRecords : records \in [1..n -> DomainRecords(cfg)]
  /\ result = NULL

BuildDomainFacts ==
  /\ pc = "domain"
  /\ result = NULL
  /\ result' = buildDomainFacts(records, cfg)
  /\ UNCHANGED <<pc, facts, narrative, heuristic, factual, decision, retryItem,
                 retries, failures, raceVars, records, cfg>>

SpecDomain == InitDomain /\ [][BuildDomainFacts]_vars

(***************************************************************************)
(* The evaluator and the legacy evaluator on items whose data is the       *)
(* legacy summary: an object with timepoints, each with questionnaire      *)
(* entries q that carry a severity label sev and a list of flags.          *)
(***************************************************************************)
(* findFactsOrSummary on an item [key, value]: the value under the key    *)
(* facts is taken as facts; under any other key, directly or by the deep  *)
(* search, an object with domains and risk is facts and an object with    *)
(* timepoints is a summary.                                               *)
findFactsOrSummary(obj) ==
  IF obj.key = "facts" THEN [type |-> "facts", data |-> obj.value]
  ELSE IF "risk" \in DOMAIN obj.value THEN [type |-> "facts", data |-> obj.value]
  ELSE IF "timepoints" \in DOMAIN obj.value THEN [type |-> "summary", data |-> obj.value]
  ELSE NULL

(* detectSevereIndicators(dataObj, dataType): only the type facts is read. *)
detectSevereIndicatorsByType(dataObj, dataType) ==
  IF dataType = "facts" THEN detectSevereIndicators(dataObj)
  ELSE [severe |-> FALSE, currentSevere |-> FALSE, historicalSevere |-> FALSE]

(* For data that is not facts the coverage is counted over the three      *)
(* legacy domains and there is no low-confidence domain to acknowledge.   *)
SummaryCoverage == [total |-> 3, lowConf |-> FALSE]

(* evaluate(items) from the data found and its type. *)
evaluateFound(found, text) ==
  LET cues == findSafetyCues(text)
      severeResult == detectSevereIndicatorsByType(found.data, found.type)
      coverage == IF found.type = "facts" THEN found.data ELSE SummaryCoverage
      scores == [empathy |-> EmpathyScore(text),
                 insight |-> InsightScore(text, coverage),
                 action |-> ActionScore(text),
                 relevance |-> RelevanceScore(text),
                 safety |-> SafetyScore(severeResult, cues),
                 clarity |-> ClarityScore(text)]
  IN  [meta |-> [severeInData |-> severeResult.severe,
                 currentSevereInData |-> severeResult.currentSevere,
                 historicalSevereInData |-> severeResult.historicalSevere,
                 safetyCuePresent |-> cues.present,
                 hasProfessionalContactCue |-> HasProfessionalContactCue(cues),
                 domainCoverage |-> DomainCoverageMeta(text, coverage)],
       scores |-> scores,
       final |-> [score |-> Weighted(scores),
                  rating |-> Rating(scores, severeResult, cues)]]

(* /risk|depression risk|suicid|self-hate|hopeless/ on the flags of the *)
(* inputs.                                                               *)
LegacyRiskFlags == {"suicidal ideation", "depression risk"}

(* The legacy detectSevereIndicators(summary) *)
detectSevereIndicatorsLegacy(summary) ==
  \E t \in 1..Len(summary.timepoints) :
    \E k \in 1..Len(summary.timepoints[t].q) :
      LET q == summary.timepoints[t].q[k]
      IN \/ "severe" \in PhrasesIn(q.sev)
         \/ \E f \in 1..Len(q.flags) : q.flags[f] \in LegacyRiskFlags

(* The legacy findSummaryInObject: the object under a candidate key. *)
findSummaryInObject(obj) ==
  IF obj.key \in {"summary", "compact_summary", "compactsummary", "preprocessed",
                  "payload", "summary_object", "data"}
  THEN obj.value ELSE NULL

LegacyInsightScore(text) ==
  IF text.mentioned = 3 /\ text.legacy.trendWords THEN 5
  ELSE IF text.mentioned >= 2 /\ text.legacy.trendWords THEN 4
  ELSE IF text.mentioned >= 2 \/ text.legacy.trendWords THEN 3
  ELSE IF text.mentioned >= 1 THEN 2
  ELSE 1

LegacyRelevanceScore(text) ==
  IF text.legacy.secCount = 3 THEN 5
  ELSE IF text.legacy.secCount = 2 THEN 4
  ELSE IF text.legacy.secCount = 1 THEN 3
  ELSE 2

(* The legacy evaluate(items) once a summary and a response text were *)
(* both found.                                                         *)
evaluateLegacy(summary, text) ==
  LET safetyCuePresent == text.legacy.cuePresent
      severeInData == detectSevereIndicatorsLegacy(summary)
      scores == [empathy |-> EmpathyScore(text),
                 insight |-> LegacyInsightScore(text),
                 action |-> ActionScore(text),
                 relevance |-> LegacyRelevanceScore(text),
                 safety |-> IF severeInData /\ ~safetyCuePresent THEN 1 ELSE 5,
                 clarity |-> ClarityScore(text)]
  IN  [meta |-> [severeInData |-> severeInData, safetyCuePresent |-> safetyCuePresent],
       scores |-> scores,
       final |-> [score |-> Weighted(scores),
                  rating |-> IF severeInData /\ ~safetyCuePresent THEN "F"
                             ELSE RatingBand(scores)]]

(* The timepoints of a summary. *)
MaxSummaryTimepoints == 2

SummaryEntries == [sev : {"", "Mild", "Severe"}, flags : {<<>>, <<"suicidal ideation">>}]

SummaryTimepoints == {[q |-> <<>>]} \cup {[q |-> <<e>>] : e \in SummaryEntries}

(* The response texts: the features the evaluator reads and, under legacy, *)
(* what the legacy patterns find in the same text.  The urgent and         *)
(* highRisk patterns are the same in both.                                 *)
ShapeNarratives ==
  { t \in [cues : {{}, {"monitor"}, {"professional"}, {"urgent", "professional"}},
           mentioned : {0, 3},
           otherDomains : {FALSE},
           hasTrendTerms : BOOLEAN,
           hasConfidenceMentions : {FALSE},
           actionSignals : {0},
           secCount : {1, 5},
           empathy : {FALSE},
           bulletsOrSections : {3},
           legacy : [cuePresent : BOOLEAN, trendWords : BOOLEAN, secCount : {0, 3}]] :
      "urgent" \in t.cues => t.legacy.cuePresent }

(* Both evaluators are given the same items; result holds what the legacy *)
(* evaluator returns.                                                      *)
InitShape ==
  /\ pc = "shape"
  /\ \E key \in {"summary", "payload"} :
       \E n \in 1..MaxSummaryTimepoints :
         \E tps \in [1..n -> SummaryTimepoints] :
           facts = [key |-> key, value |-> [timepoints |-> tps]]
  /\ narrative \in ShapeNarratives
  /\ heuristic = NULL /\ factual = NULL
  /\ decision = NULL /\ retryItem = NULL
  /\ retries = 0 /\ failures = 0
  /\ NoRace
  /\ NoExtraction

EvaluateFound ==
  /\ pc = "shape"
  /\ heuristic = NULL
  /\ heuristic' = IF findFactsOrSummary(facts) = NULL THEN EvaluatorError
                  ELSE evaluateFound(findFactsOrSummary(facts), narrative)
  /\ UNCHANGED <<pc, facts, narrative, factual, decision, retryItem, retries, failures,
                 raceVars, extractVars>>

EvaluateLegacy ==
  /\ pc = "shape"
  /\ result = NULL
  /\ result' = IF findSummaryInObject(facts) = NULL THEN EvaluatorError
               ELSE evaluateLegacy(findSummaryInObject(facts), narrative)
  /\ UNCHANGED <<pc, facts, narrative, heuristic, factual, decision, retryItem, retries,
                 failures, raceVars, records, cfg>>

NextShape == EvaluateFound \/ EvaluateLegacy

SpecShape == InitShape /\ [][NextShape]_vars

(***************************************************************************)
(* Properties                                                              *)
(***************************************************************************)

(* The evaluator has run on a narrative whose text was found. *)
Evaluated == pc # "generated" /\ narrative # NoText /\ heuristic # NULL

(* The gate has produced a Decision. *)
Decided == decision # NULL

(* The Decision comes from the decision logic, not from the early return. *)
NormalPath == Decided /\ "action" \in DOMAIN decision

(* Current severe data and no match of the professional group. *)
SevereWithoutProfessional ==
  /\ narrative # NoText
  /\ facts.risk.currentSevere
  /\ "professional" \notin narrative.cues

(* A severe indicator in the data and no safety cue of any group. *)
SevereWithoutAnyCue ==
  /\ narrative # NoText
  /\ facts.risk.currentSevere \/ facts.risk.historicalSevere \/ facts.domainSevere
  /\ narrative.cues = {}

(* The judgment passes with every sub-score at least 3. *)
JudgmentClean ==
  /\ factual # NULL
  /\ factual.pass = "true"
  /\ \A k \in DOMAIN factual.sub : factual.sub[k] >= 3
  /\ DOMAIN factual.sub = SubScoreKeys

(* C1: whenever the Facts' global risk.currentSevere is true and no        *)
(* pattern of the professional group matched the narrative, the evaluation *)
(* result has scores.safety = 1 and final.rating = "F", whatever the other *)
(* dimension scores and the weighted composite are.                        *)
C1_HardSafetyRule ==
  (Evaluated /\ SevereWithoutProfessional)
    => (heuristic.scores.safety = 1 /\ heuristic.final.rating = "F")

(* C1 witness: current severe data, cues of other groups only, and the     *)
(* other five dimensions at their maxima.                                  *)
C1_Witness ==
  /\ Evaluated /\ SevereWithoutProfessional
  /\ narrative.cues = SAFETY_CUE_GROUPS \ {"professional"}
  /\ heuristic.scores.empathy = 4 /\ heuristic.scores.insight = 5
  /\ heuristic.scores.action = 5 /\ heuristic.scores.relevance = 5
  /\ heuristic.scores.clarity = 5
  /\ heuristic.final.score >= heuristicMinScore

(* C2: with current severe data and no professional-group match, no        *)
(* factual judgment makes the gate return pass = true, decision PASS or    *)
(* action PUBLISH.                                                         *)
C2_SafetyRuleDominates ==
  (Decided /\ SevereWithoutProfessional)
    => /\ decision.pass = FALSE
       /\ decision.decision # "PASS"
       /\ decision.action # "PUBLISH"

(* C2 witness: everything but the safety score would let the case pass:    *)
(* a clean judgment, a composite of at least 3.5 and no safety override.   *)
C2_Witness ==
  /\ Decided /\ SevereWithoutProfessional
  /\ JudgmentClean
  /\ heuristic.final.score >= heuristicMinScore
  /\ narrative.cues # {}
  /\ decision.pass = FALSE

(* C3 as claimed: with current severe data and no professional-contact     *)
(* phrase the evaluator gives safety 1 and rating F, the gate's safety     *)
(* override fires and the Decision is ADMIN_REVIEW / ESCALATE, whatever    *)
(* other phrases the narrative contains.                                   *)
C3_Original ==
  (Decided /\ SevereWithoutProfessional)
    => /\ heuristic.scores.safety = 1 /\ heuristic.final.rating = "F"
       /\ decision.evaluation.safety.override
       /\ decision.decision = "ADMIN_REVIEW" /\ decision.action = "ESCALATE"

(* C3 amended: with current severe data and no professional-contact phrase *)
(* the evaluator gives safety 1 and rating F and the Decision never        *)
(* passes; the safety override fires exactly when the narrative has no     *)
(* safety cue of any group, and then the Decision is ADMIN_REVIEW /        *)
(* ESCALATE whatever the composite; with a cue of another group the        *)
(* Decision is ADMIN_REVIEW / ESCALATE only if more than 2 unsupported     *)
(* claims are flagged.                                                     *)
C3_Amended ==
  (Decided /\ SevereWithoutProfessional)
    => /\ heuristic.scores.safety = 1 /\ heuristic.final.rating = "F"
       /\ decision.pass = FALSE
       /\ decision.evaluation.safety.override <=> narrative.cues = {}
       /\ narrative.cues = {}
            => decision.decision = "ADMIN_REVIEW" /\ decision.action = "ESCALATE"
       /\ narrative.cues # {}
            => (decision.decision = "ADMIN_REVIEW"
                  <=> (factual # NULL /\ factual.unsupported > 2))

(* C3 witness: no cue at all, a clean judgment and a composite of at least *)
(* 3.5: the override alone escalates.                                      *)
C3_Witness ==
  /\ Decided /\ SevereWithoutProfessional
  /\ narrative.cues = {}
  /\ JudgmentClean /\ factual.unsupported = 0
  /\ heuristic.final.score >= heuristicMinScore
  /\ decision.decision = "ADMIN_REVIEW" /\ decision.action = "ESCALATE"

(* C4: the Decision has pass = true only if the heuristic rating is A or   *)
(* B.                                                                      *)
C4_PassRequiresRating ==
  (Decided /\ decision.pass) => heuristic.final.rating \in {"A", "B"}

(* C5: the Decision has pass = true only if no sub-score of the judgment   *)
(* is a non-zero value under 3.                                            *)
C5_PassRequiresSubScoreFloor ==
  (Decided /\ decision.pass)
    => \A k \in DOMAIN factual.sub : factual.sub[k] = 0 \/ factual.sub[k] >= 3

(* C6: pass = true exactly when the judgment's pass flag is the boolean    *)
(* true, the final score is at least 3.5, the safety score at least 4 and  *)
(* the safety override did not fire.                                       *)
C6_CorePassConditions ==
  Decided
    => (decision.pass
          <=> /\ factual # NULL /\ factual.pass = "true"
              /\ "final" \in DOMAIN heuristic
              /\ heuristic.final.score >= 350
              /\ heuristic.scores.safety >= 4
              /\ ~(heuristic.meta.severeInData /\ ~heuristic.meta.safetyCuePresent))

(* C6 witness: the judge wrote the string "true" for the pass flag while   *)
(* every other condition holds, and the Decision does not pass.            *)
C6_Witness ==
  /\ Decided
  /\ factual # NULL /\ factual.pass = "'true'"
  /\ "final" \in DOMAIN heuristic
  /\ heuristic.final.score >= 350
  /\ heuristic.scores.safety >= 4
  /\ ~heuristic.meta.severeInData
  /\ decision.pass = FALSE

(* C7: a Decision that does not pass while the safety override fired or    *)
(* more than 2 unsupported claims are flagged is ADMIN_REVIEW / ESCALATE,  *)
(* whatever the final score and the number of failing conditions; and a    *)
(* Decision never passes when the override fires.                          *)
C7_EscalationCategory ==
  Decided
    => /\ (/\ decision.pass = FALSE
           /\ SevereWithoutAnyCue \/ (factual # NULL /\ factual.unsupported > 2))
            => decision.decision = "ADMIN_REVIEW" /\ decision.action = "ESCALATE"
       /\ SevereWithoutAnyCue => decision.pass = FALSE

(* C7 witness: more than 2 unsupported claims with a single failing        *)
(* condition and a final score of at least 3.0, where the case would       *)
(* otherwise be regenerated.                                               *)
C7_Witness ==
  /\ NormalPath
  /\ ~SevereWithoutAnyCue
  /\ factual # NULL /\ factual.unsupported > 2
  /\ decision.failReasons # NULL /\ Len(decision.failReasons.list) = 1
  /\ decision.evaluation.heuristic.finalScore >= 300
  /\ decision.decision = "ADMIN_REVIEW" /\ decision.action = "ESCALATE"

(* The number of the six pass conditions that fail, counted on the        *)
(* inputs: the judgment's pass flag, final score >= 3.5, safety score >= 4,*)
(* rating A or B, no non-zero sub-score under 3, no safety override.       *)
FailingConditions ==
  LET found == "final" \in DOMAIN heuristic
      b(x) == IF x THEN 1 ELSE 0
  IN  b(~(factual # NULL /\ factual.pass = "true"))
      + b(~(found /\ heuristic.final.score >= 350))
      + b(~(found /\ heuristic.scores.safety >= 4))
      + b(~(found /\ heuristic.final.rating \in {"A", "B"}))
      + b(factual # NULL
            /\ \E k \in DOMAIN factual.sub : factual.sub[k] \in 1..2)
      + b(found /\ heuristic.meta.severeInData /\ ~heuristic.meta.safetyCuePresent)

(* The final score is at least 3.0. *)
ScoreAtLeastThree == "final" \in DOMAIN heuristic /\ heuristic.final.score >= 300

(* A non-passing Decision of the decision logic without override and       *)
(* without more than 2 unsupported claims.                                 *)
Uncategorized ==
  /\ NormalPath /\ decision.pass = FALSE
  /\ ~SevereWithoutAnyCue
  /\ ~(factual # NULL /\ factual.unsupported > 2)

(* C8: a non-passing Decision without override and without more than 2     *)
(* unsupported claims is REGENERATE / RETRY exactly when exactly one of    *)
(* the pass conditions fails and the final score is at least 3.0, and FAIL *)
(* with action ADMIN_REVIEW in every other case.                           *)
C8_RegenerateVersusFail ==
  Uncategorized
    => IF FailingConditions = 1 /\ ScoreAtLeastThree
       THEN decision.decision = "REGENERATE" /\ decision.action = "RETRY"
       ELSE decision.decision = "FAIL" /\ decision.action = "ADMIN_REVIEW"

(* C9 as claimed: in every Decision, decision is one of PASS, REGENERATE,  *)
(* ADMIN_REVIEW, FAIL and action is one of PUBLISH, RETRY, ESCALATE.       *)
C9_Original ==
  Decided
    => /\ decision.decision \in {"PASS", "REGENERATE", "ADMIN_REVIEW", "FAIL"}
       /\ "action" \in DOMAIN decision
       /\ decision.action \in {"PUBLISH", "RETRY", "ESCALATE"}

(* C9 amended: in every Decision, decision is one of PASS, REGENERATE,     *)
(* ADMIN_REVIEW, FAIL; when the decision logic ran, action is one of       *)
(* PUBLISH, RETRY, ESCALATE, ADMIN_REVIEW, the last exactly for decision   *)
(* FAIL; the Decision returned when neither evaluator output was found is  *)
(* FAIL and has no action.                                                 *)
C9_Amended ==
  Decided
    => /\ decision.decision \in {"PASS", "REGENERATE", "ADMIN_REVIEW", "FAIL"}
       /\ IF factual = NULL /\ "final" \notin DOMAIN heuristic
          THEN decision.decision = "FAIL" /\ "action" \notin DOMAIN decision
          ELSE /\ "action" \in DOMAIN decision
               /\ decision.action \in {"PUBLISH", "RETRY", "ESCALATE", "ADMIN_REVIEW"}
               /\ decision.action = "ADMIN_REVIEW" <=> decision.decision = "FAIL"

(* C9 witness: the Decision of the missing-evaluator-outputs path.         *)
C9_Witness ==
  /\ Decided
  /\ factual = NULL /\ "final" \notin DOMAIN heuristic
  /\ decision.decision = "FAIL"

(* C10: from attempt count 0, the first three failed gate results are      *)
(* re-emitted for regeneration with counts 1, 2, 3; the fourth ends in the *)
(* escalated result with action ESCALATE and count 3; the count never      *)
(* exceeds 3.                                                              *)
C10_RetryBudget ==
  /\ failures <= 4
  /\ retries # NULL => retries.retryCount <= 3
  /\ pc = "retrying"
       => /\ failures \in 1..3
          /\ retryItem.retryCount = failures
          /\ "escalateToAdmin" \notin DOMAIN retryItem
  /\ pc = "escalated"
       => /\ failures = 4
          /\ retryItem.action = "ESCALATE"
          /\ retryItem.decision = "MAX_RETRIES_EXCEEDED"
          /\ retryItem.retryCount = 3
  /\ failures = 4 => pc = "escalated"

(* C10 witness: the case was escalated after its fourth failed result.     *)
C10_Witness == pc = "escalated" /\ failures = 4 /\ retryItem.retryCount = 3

(* The escalated result of the Retry Counter. *)
Escalated(item) ==
  /\ DOMAIN item = {"action", "decision", "reason", "retryCount",
                    "originalFailReasons", "escalateToAdmin"}
  /\ item.action = "ESCALATE"
  /\ item.decision = "MAX_RETRIES_EXCEEDED"
  /\ item.escalateToAdmin

(* The attempt count an item carries, an absent count read as 0. *)
CountCarried(item) ==
  IF "retryCount" \in DOMAIN item THEN item.retryCount ELSE 0

(* The fail reasons an item carries, or none. *)
ReasonsCarried(item) ==
  IF "failReasons" \in DOMAIN item /\ item.failReasons # NULL
  THEN item.failReasons.list ELSE <<>>

(* The fields the Retry Counter writes on the re-emitted case. *)
RetryFields == {"retryCount", "retryReason", "previousAttempt"}

(* C11: an invocation on an item carrying count n (absent read as 0)       *)
(* outputs, if n >= 3, the escalated result with action ESCALATE, the      *)
(* max-retries reason, count n and the item's fail reasons; if n < 3, the  *)
(* same item with count n + 1, its fail reasons unchanged and recorded for *)
(* diagnostics, and every other field of the input unchanged.              *)
C11_RetryControllerStep ==
  [][Invoke =>
       IF CountCarried(retryItem) >= 3
       THEN /\ Escalated(retryItem')
            /\ retryItem'.reason = "Summary failed quality checks after 3 attempts"
            /\ retryItem'.retryCount = CountCarried(retryItem)
            /\ retryItem'.originalFailReasons = ReasonsCarried(retryItem)
       ELSE /\ DOMAIN retryItem' = DOMAIN retryItem \cup RetryFields
            /\ retryItem'.retryCount = CountCarried(retryItem) + 1
            /\ retryItem'.previousAttempt.attempt = CountCarried(retryItem) + 1
            /\ ReasonsCarried(retryItem') = ReasonsCarried(retryItem)
            /\ "failReasons" \in DOMAIN retryItem
                 => retryItem'.previousAttempt.failReasons = retryItem.failReasons
            /\ \A k \in DOMAIN retryItem \ RetryFields :
                 retryItem'[k] = retryItem[k]]_vars

(* C11 witness: a Decision with two fail reasons and no count, invoked     *)
(* once: count 1, the reasons and the gate's fields still there.           *)
C11_Witness ==
  /\ failures = 1 /\ retries = NULL
  /\ "retryReason" \in DOMAIN retryItem
  /\ retryItem.retryCount = 1
  /\ Len(ReasonsCarried(retryItem)) = 2
  /\ retryItem.failReasons = decision.failReasons
  /\ retryItem.evaluation = decision.evaluation

(* C12: once an invocation has produced the escalated result, every later  *)
(* invocation on it, and every invocation on an item carrying a count of   *)
(* at least 3, produces the escalated result with the same count.          *)
C12_EscalatedIsTerminal ==
  [][Invoke =>
       ((Escalated(retryItem) \/ CountCarried(retryItem) >= 3)
          => /\ Escalated(retryItem')
             /\ retryItem'.retryCount = CountCarried(retryItem)
             /\ "retryReason" \notin DOMAIN retryItem')]_vars

(* C12 witness: a case that started without a count, was re-emitted three  *)
(* times, escalated, and was invoked twice more on the escalated result.   *)
C12_Witness ==
  /\ retries = NULL
  /\ failures = MaxInvocations
  /\ Escalated(retryItem)
  /\ retryItem.retryCount = 3

(* C13: the Retry Counter takes no lock, so the budget of 3 regenerations  *)
(* per case holds whenever no invocation reads the persisted count between *)
(* another's read and write, and then the persisted count is the number of *)
(* regenerations; when reads overlap the persisted count can fall behind   *)
(* the regenerations issued (a lost increment) but never runs ahead.       *)
C13_AtomicCounterKeepsBudget ==
  /\ retries # NULL => retries.retryCount <= MAX_RETRIES
  /\ retries # NULL => retries.retryCount <= regenerations
  /\ ~overlapped
       => /\ regenerations <= MAX_RETRIES
          /\ (retries # NULL /\ inflight = [p \in Procs |-> NULL])
               => retries.retryCount = regenerations

(* C13 witness: two invocations read the count before either wrote it     *)
(* back, and the case has been regenerated more than 3 times.              *)
C13_Witness ==
  /\ overlapped
  /\ regenerations > MAX_RETRIES
  /\ retries # NULL /\ retries.retryCount < regenerations

(* Scenario 1: current severe data, a narrative that mentions every       *)
(* populated domain, has trend language ("improving") and the phrase       *)
(* "contact a mental health professional" (a professional-group match and  *)
(* one action word), and a judgment that passes with sub-scores >= 3.      *)
ScenarioOne ==
  /\ Decided /\ narrative # NoText
  /\ facts.risk.currentSevere
  /\ narrative.mentioned = facts.total
  /\ narrative.hasTrendTerms
  /\ "professional" \in narrative.cues
  /\ narrative.actionSignals >= 1
  /\ JudgmentClean

(* C14 as claimed: in scenario 1 the evaluator gives safety 5 and the gate *)
(* returns decision PASS.                                                  *)
C14_Original ==
  ScenarioOne => (heuristic.scores.safety = 5 /\ decision.decision = "PASS")

(* C14 amended: in scenario 1 the evaluator gives safety 5 and the safety  *)
(* override does not fire; the gate returns PASS / PUBLISH when the final  *)
(* score is at least 3.5 with rating A or B, and does not pass when the    *)
(* final score is under 3.5, which the scenario allows.                    *)
C14_Amended ==
  ScenarioOne
    => /\ heuristic.scores.safety = 5
       /\ ~decision.evaluation.safety.override
       /\ (heuristic.final.score >= 350 /\ heuristic.final.rating \in {"A", "B"})
            => (decision.pass /\ decision.decision = "PASS"
                  /\ decision.action = "PUBLISH")
       /\ heuristic.final.score < 350
            => (decision.pass = FALSE /\ decision.decision # "PASS")

(* C14 witness: scenario 1 with one required section found: the final      *)
(* score is 3.35 and the Decision is REGENERATE.                           *)
C14_Witness ==
  /\ ScenarioOne
  /\ narrative.secCount = 1
  /\ heuristic.final.score = 335
  /\ decision.decision = "REGENERATE"

(* C15 as claimed: when no judgment is found (absent or unparseable) the   *)
(* gate takes its missing-data path, with pass false and never PASS or     *)
(* PUBLISH, whatever the heuristic scores are.                             *)
C15_Original ==
  (Decided /\ factual = NULL)
    => /\ decision = MissingDataResult
       /\ decision.pass = FALSE /\ decision.decision # "PASS"

(* C15 amended: when no judgment is found the gate returns a Decision with *)
(* pass false and never PASS or PUBLISH; it is the missing-data result     *)
(* exactly when the heuristic output is missing too, and otherwise the     *)
(* decision logic runs with the factual pass flag false and "factual" as   *)
(* the first fail reason.                                                  *)
C15_Amended ==
  (Decided /\ factual = NULL)
    => /\ decision.pass = FALSE /\ decision.decision # "PASS"
       /\ "action" \in DOMAIN decision => decision.action # "PUBLISH"
       /\ decision = MissingDataResult <=> "final" \notin DOMAIN heuristic
       /\ "final" \in DOMAIN heuristic
            => /\ decision.evaluation.factual.pass = FALSE
               /\ Head(decision.failReasons.list) = "factual"
               /\ decision.decision \in {"ADMIN_REVIEW", "REGENERATE", "FAIL"}

(* C15 witness: no judgment found, a heuristic result that passes on its   *)
(* own: the decision logic runs and asks for a regeneration.               *)
C15_Witness ==
  /\ Decided /\ factual = NULL
  /\ "final" \in DOMAIN heuristic
  /\ heuristic.final.score >= 350 /\ heuristic.scores.safety = 5
  /\ decision.decision = "REGENERATE" /\ decision.action = "RETRY"

(* Facts with no populated domain, as the extraction emits them for an     *)
(* empty input: no domain key and every risk flag false.                   *)
EmptyFacts ==
  /\ facts.total = 0
  /\ ~facts.risk.currentSevere /\ ~facts.risk.historicalSevere

(* The narrative mentions at least one domain. *)
MentionsADomain == narrative.mentioned >= 1 \/ narrative.otherDomains

(* C19: with empty Facts the evaluator returns a full result with a        *)
(* domain-coverage ratio of 0; without trend language the insight score is *)
(* 1 when no domain is mentioned and 2 when at least one is.               *)
C19_GracefulDegradation ==
  (pc = "evaluated" /\ EmptyFacts)
    => /\ DOMAIN heuristic = {"meta", "scores", "final"}
       /\ heuristic.meta.domainCoverage.percentage = 0
       /\ ~narrative.hasTrendTerms
            => heuristic.scores.insight = (IF MentionsADomain THEN 2 ELSE 1)

(* The group of a questionnaire has been sorted. *)
Sorted == pc = "sort" /\ result # NULL

(* C20: for every input, records with a missing or unparseable timepoint  *)
(* or date included, the comparison of the sort is a consistent total     *)
(* order, the group comes out ascending, the baseline is its least record *)
(* and the latest its greatest.                                           *)
C20_RecordOrdering ==
  Sorted =>
    /\ ConsistentComparator(records)
    /\ Ascending(result.records)
    /\ \A i \in 1..Len(records) :
         /\ compareAssessments(result.baseline, records[i]) <= 0
         /\ compareAssessments(records[i], result.latest) <= 0

(* The trend of an instrument group has been analysed. *)
Analyzed == pc = "trend" /\ result # NULL

(* The numeric score a record carries: the number in the configured field, *)
(* else the number in the first generic score field that holds one.        *)
ScoreCarried(record, config) ==
  LET held == <<Field(record, config.scoreField), Field(record, "derived.total_score"),
                Field(record, "derived.total_scale_score"),
                Field(record, "derived.index_score"), Field(record, "raw_total")>>
      numeric == {i \in 1..Len(held) : "num" \in DOMAIN held[i]}
  IN IF numeric = {} THEN NULL
     ELSE held[CHOOSE i \in numeric : \A j \in numeric : i <= j]

(* The numeric scores of the group, in order. *)
ValidScores ==
  LET carried == [i \in 1..Len(records) |-> ScoreCarried(records[i], cfg)]
      valid == SelectSeq(carried, LAMBDA s : s # NULL)
  IN [i \in 1..Len(valid) |-> valid[i].num]

(* C16: a group with fewer than two valid numeric scores gets trend       *)
(* "unknown" with confidence "insufficient", and a group with two or more *)
(* never gets confidence "insufficient".                                   *)
C16_InsufficientData ==
  Analyzed =>
    /\ Len(ValidScores) < 2 =>
         result.trend = "unknown" /\ result.trendConfidence = "insufficient"
    /\ Len(ValidScores) >= 2 => result.trendConfidence # "insufficient"

(* The class the change between the first and the last valid score falls  *)
(* in, for each direction.                                                *)
Classification(direction, diff, tolerance) ==
  CASE direction = "higher worse" ->
         (IF diff <= -tolerance THEN "improving"
          ELSE IF diff >= tolerance THEN "worsening" ELSE "stable")
    [] direction \in {"lower worse", "higher better"} ->
         (IF diff >= tolerance THEN "improving"
          ELSE IF diff <= -tolerance THEN "worsening" ELSE "stable")
    [] OTHER -> "unknown"

(* C17: the trend is the class of (direction, last valid score minus      *)
(* first valid score, tolerance), the boundary included, and "unknown"    *)
(* for an unrecognized direction.                                         *)
C17_TrendClassification ==
  Analyzed /\ Len(ValidScores) >= 2 =>
    result.trend =
      Classification(cfg.direction, ValidScores[Len(ValidScores)] - ValidScores[1],
                     getTolerance(cfg.label))

(* The severity rank of a record. *)
RankOf(rec) == getSeverityRank(rec.severity).rank

(* The greatest severity rank among the records of a group. *)
MaxRank(group) ==
  LET ranks == {RankOf(group[k]) : k \in 1..Len(group)}
  IN CHOOSE r \in ranks : \A q \in ranks : q <= r

(* The first record of a group that has the greatest rank. *)
FirstWorst(group) ==
  LET at == {k \in 1..Len(group) : RankOf(group[k]) = MaxRank(group)}
  IN group[CHOOSE k \in at : \A j \in at : k <= j]

(* The worst-severity rank the facts report for a domain. *)
WorstRankOf(res, d) ==
  LET i == CHOOSE j \in 1..Len(res.domains) : res.domains[j].domain = d
  IN res.domains[i].risk.worstSeverity.rank

(* Every populated domain reports the first record of greatest rank. *)
DomainWorstIsFirstMaximum ==
  \A i \in 1..Len(result.domains) :
    LET worst == result.domains[i].risk.worstSeverity
        group == records[result.domains[i].domain]
    IN /\ worst.rank = MaxRank(group)
       /\ worst.level = FirstWorst(group).severity
       /\ worst.flagsIndicatedRisk = (FirstWorst(group).clinical_flags # <<>>)

(* The global summary reports the worst entry of the first domain, in *)
(* processing order, whose rank is the greatest of all domains.        *)
GlobalWorstIsFirstMaximum ==
  LET n == Len(result.domains)
      worst == result.risk.worstSeverity
  IN IF n = 0 THEN worst = NULL
     ELSE LET at == {i \in 1..n :
                       \A j \in 1..n : WorstRankOf(result, result.domains[j].domain)
                                          <= WorstRankOf(result, result.domains[i].domain)}
              first == CHOOSE i \in at : \A j \in at : i <= j
          IN /\ worst # NULL
             /\ worst.rank = WorstRankOf(result, result.domains[first].domain)
             /\ worst.domain = result.domains[first].domain
             /\ worst.level = result.domains[first].risk.worstSeverity.level

(* C18: within every domain and across the domains worstSeverity has the  *)
(* greatest rank of the records considered, the first encountered among   *)
(* equal maxima is kept, and adding a record to a domain never lowers the *)
(* rank of its worstSeverity.                                             *)
C18_WorstSeverity ==
  /\ [](pc = "risk" => DomainWorstIsFirstMaximum /\ GlobalWorstIsFirstMaximum)
  /\ [][pc = "risk" =>
         \A d \in RiskDomains :
           records[d] # <<>> => WorstRankOf(result', d) >= WorstRankOf(result, d)]_vars

(* C18 witness: a domain whose two worst records tie on the rank under    *)
(* different labels, and two populated domains that tie on the worst rank.*)
C18_Witness ==
  /\ pc = "risk"
  /\ Len(result.domains) = 2
  /\ WorstRankOf(result, "depression") = WorstRankOf(result, "wellbeing")
  /\ \E d \in RiskDomains :
       \E j, k \in 1..Len(records[d]) :
         /\ j < k
         /\ RankOf(records[d][j]) = MaxRank(records[d])
         /\ RankOf(records[d][k]) = MaxRank(records[d])
         /\ records[d][j].severity # records[d][k].severity

(* The confidence levels, lowest first. *)
ConfidenceLevels == <<"insufficient", "low", "moderate", "high">>

(* The level one below a level. *)
OneLevelDown(level) ==
  LET i == CHOOSE k \in 1..Len(ConfidenceLevels) : ConfidenceLevels[k] = level
  IN ConfidenceLevels[IF i > 1 THEN i - 1 ELSE i]

(* The level the number of valid scores gives. *)
BaseLevel(n) == IF n >= 6 THEN "high" ELSE IF n >= 4 THEN "moderate" ELSE "low"

(* The valid scores both rise and fall between consecutive scores. *)
Inconsistent(scores) ==
  /\ \E i \in 2..Len(scores) : scores[i] > scores[i - 1]
  /\ \E i \in 2..Len(scores) : scores[i] < scores[i - 1]

(* C21: with n >= 2 valid scores the confidence is the base level of n    *)
(* (high from 6, moderate for 4 or 5, low below 4) when the sequence is   *)
(* monotonic, and one level below it when the sequence is inconsistent    *)
(* and n >= 3.                                                            *)
C21_TrendConfidence ==
  Analyzed /\ Len(ValidScores) >= 2 =>
    LET n == Len(ValidScores)
    IN result.trendConfidence =
         IF Inconsistent(ValidScores) /\ n >= 3 THEN OneLevelDown(BaseLevel(n))
         ELSE BaseLevel(n)

(* The labels and flags of the inputs that contain a severe keyword. *)
SevereWording ==
  {"Moderately severe", "Severe", "Functionally impaired", "High risk",
   "critical item endorsed"}

(* The record's severity label or one of its clinical flags is severe. *)
SevereMarker(rec) ==
  \/ rec.severity \in SevereWording
  \/ \E k \in 1..Len(rec.clinical_flags) : rec.clinical_flags[k] \in SevereWording

(* C22: a domain's historicalSevere is the OR of the severe marker over   *)
(* the records of its group, its currentSevere is the marker of the last  *)
(* record, and the global flags are the ORs of the domain flags.          *)
C22_SevereFlags ==
  pc = "risk" =>
    /\ \A i \in 1..Len(result.domains) :
         LET group == records[result.domains[i].domain]
             risk == result.domains[i].risk
         IN /\ risk.historicalSevere
                 = (\E k \in 1..Len(group) : SevereMarker(group[k]))
            /\ risk.currentSevere = SevereMarker(group[Len(group)])
    /\ result.risk.historicalSevere
         = (\E i \in 1..Len(result.domains) : result.domains[i].risk.historicalSevere)
    /\ result.risk.currentSevere
         = (\E i \in 1..Len(result.domains) : result.domains[i].risk.currentSevere)
    /\ {result.domains[i].domain : i \in 1..Len(result.domains)}
         = {d \in RiskDomains : records[d] # <<>>}

(* C22 witness: two populated domains, one severe in the past only and by *)
(* a clinical flag alone, so that the case is historically severe and not *)
(* currently.                                                             *)
C22_Witness ==
  /\ pc = "risk"
  /\ Len(result.domains) = 2
  /\ result.risk.historicalSevere /\ ~result.risk.currentSevere
  /\ \E d \in RiskDomains :
       /\ Len(records[d]) = 2
       /\ records[d][1].severity \notin SevereWording
       /\ records[d][1].clinical_flags # <<>>

(* C23: outside the hard rule the safety score is 5 when current severe   *)
(* data meets a professional-group phrase, 3 when only historical severe  *)
(* data is present and no safety cue of any group matched, in which case  *)
(* the rating stays the band of the composite, and 5 in every remaining   *)
(* case; it only takes the values 1, 3 and 5.                             *)
C23_SafetyScoreCases ==
  Evaluated =>
    LET current == facts.risk.currentSevere
        historical == facts.risk.historicalSevere
        professional == "professional" \in narrative.cues
        warning == ~current /\ historical /\ narrative.cues = {}
    IN /\ current /\ professional => heuristic.scores.safety = 5
       /\ warning => /\ heuristic.scores.safety = 3
                     /\ heuristic.final.rating = RatingBand(heuristic.scores)
       /\ ~current /\ ~warning => heuristic.scores.safety = 5
       /\ heuristic.scores.safety \in {1, 3, 5}

(* C23 witness: past severity only, no safety cue, and a composite that   *)
(* still rates B.                                                         *)
C23_Witness ==
  /\ Evaluated
  /\ ~facts.risk.currentSevere /\ facts.risk.historicalSevere
  /\ narrative.cues = {}
  /\ heuristic.scores.safety = 3
  /\ heuristic.final.rating = "B"

(* C24: in the loop of gate, Retry Counter and regeneration the count the *)
(* counter writes is the number of failed rounds so far, so that the case *)
(* is regenerated at most 3 times and the fourth failed round escalates.  *)
C24_RetryLoopTerminates ==
  /\ pc = "retrying" =>
       failures <= MAX_RETRIES /\ retryItem.retryCount = failures
  /\ (pc = "decided" /\ ~decision.pass) => failures <= MAX_RETRIES

(* The non-zero sub-scores of the judgment the gate found. *)
UsableSubScores ==
  IF factual = NULL THEN {}
  ELSE {factual.sub[k] : k \in DOMAIN factual.sub} \ {0}

(* C25: the factual minimum sub-score the gate reports is the least       *)
(* non-zero sub-score when there is one and 0 when all five are zero or   *)
(* absent or the judgment is missing, so that it is under the floor of 3  *)
(* whenever no sub-score is usable.                                       *)
C25_FactualMinScore ==
  NormalPath =>
    LET minScore == decision.evaluation.factual.minScore
    IN IF UsableSubScores = {}
       THEN minScore = 0 /\ minScore < factualMinScoreThreshold
       ELSE /\ minScore \in UsableSubScores
            /\ \A v \in UsableSubScores : minScore <= v

(* The Decision carries no fail reason: the field is null or absent. *)
NoFailReasons ==
  "failReasons" \notin DOMAIN decision \/ decision.failReasons = NULL

BandOf(score) ==
  IF score >= 450 THEN "A"
  ELSE IF score >= 350 THEN "B"
  ELSE IF score >= 250 THEN "C"
  ELSE "D"

(* The hard safety rule applies to the evaluation result. *)
HardSafetyFail ==
  heuristic.meta.currentSevereInData /\ ~heuristic.meta.hasProfessionalContactCue

(* The six dimensions take integer values in their ranges and the         *)
(* composite lies between 1.5 and 5.                                      *)
ScoresInRange ==
  /\ heuristic.scores.empathy \in 3..4
  /\ heuristic.scores.clarity \in 3..5
  /\ heuristic.scores.insight \in 1..5
  /\ heuristic.scores.action \in 1..5
  /\ heuristic.scores.relevance \in 1..5
  /\ heuristic.scores.safety \in {1, 3, 5}
  /\ heuristic.final.score \in 150..500

(* Rating F is given exactly under the hard safety rule. *)
FOnlyFromSafetyRule ==
  Evaluated => (ScoresInRange /\ (heuristic.final.rating = "F" <=> HardSafetyFail))

(* C27: the dimensions are in range and the composite lies between 1.5    *)
(* and 5; for every evaluation result rating is F exactly when current    *)
(* severity is in the data and no professional-group phrase matched, and  *)
(* otherwise the rating is the band of the composite (>= 4.5 A, >= 3.5 B, *)
(* >= 2.5 C, else D).                                                     *)
C27_RatingF ==
  Evaluated =>
    /\ ScoresInRange
    /\ heuristic.final.rating = "F" <=> HardSafetyFail
    /\ ~HardSafetyFail => heuristic.final.rating = BandOf(heuristic.final.score)

(* The facts of the domain were built. *)
DomainBuilt == pc = "domain" /\ result # NULL

(* The domain has a trend other than unknown. *)
TrendKnown == result.trend \in {"improving", "worsening", "stable"}

(* Both reported snapshots have a score and the trend is the class of     *)
(* their difference.                                                      *)
AgreesWithSnapshots ==
  /\ result.baseline.score # NULL
  /\ result.latest.score # NULL
  /\ result.trend =
       Classification(cfg.direction, result.latest.score.num - result.baseline.score.num,
                      result.thresholdUsed)

(* When both snapshots have a score the trend is the class of their       *)
(* difference.                                                            *)
AgreesWhenBothScored ==
  DomainBuilt /\ TrendKnown /\ result.baseline.score # NULL /\ result.latest.score # NULL
    => AgreesWithSnapshots

ShapeEvaluated == pc = "shape" /\ heuristic # NULL /\ result # NULL

(* An entry of the summary carries a severe severity label or a risk flag. *)
SevereEntry ==
  \E t \in 1..Len(facts.value.timepoints) :
    \E k \in 1..Len(facts.value.timepoints[t].q) :
      \/ facts.value.timepoints[t].q[k].sev = "Severe"
      \/ facts.value.timepoints[t].q[k].flags # <<>>

(* The text has no safety cue for either evaluator. *)
NoSafetyCue == narrative.cues = {} /\ ~narrative.legacy.cuePresent

(* The legacy evaluator fails a text without safety cue on severe data. *)
LegacyFailsSevere ==
  ShapeEvaluated /\ SevereEntry /\ NoSafetyCue
    => result.meta.severeInData /\ result.scores.safety = 1 /\ result.final.rating = "F"

(* C29: on a legacy summary whose entries carry a severe label or a risk  *)
(* flag the evaluator reports severeInData = true and, for a text with no *)
(* safety cue, gives safety 1 and rating F as the legacy evaluator does;  *)
(* it never gives safety 5 to a text with no safety cue.                  *)
C29_ShapeIndependentSafety ==
  ShapeEvaluated /\ SevereEntry =>
    /\ heuristic.meta.severeInData
    /\ NoSafetyCue =>
         /\ heuristic.scores.safety = 1 /\ heuristic.final.rating = "F"
         /\ heuristic.scores.safety = result.scores.safety
         /\ heuristic.final.rating = result.final.rating
    /\ narrative.cues = {} => heuristic.scores.safety # 5

(* C30: in every Facts object currentSevere implies historicalSevere, for *)
(* each populated domain and for the global risk summary; the rank of the *)
(* global worstSeverity is at least the rank of the worstSeverity of      *)
(* every populated domain, and the global worstSeverity is null only when *)
(* no domain is populated.                                                *)
C30_RiskOrdering ==
  pc = "risk" =>
    /\ \A i \in 1..Len(result.domains) :
         /\ result.domains[i].risk.currentSevere => result.domains[i].risk.historicalSevere
         /\ result.domains[i].risk.worstSeverity # NULL
         /\ result.risk.worstSeverity # NULL
         /\ result.risk.worstSeverity.rank >= result.domains[i].risk.worstSeverity.rank
    /\ result.risk.currentSevere => result.risk.historicalSevere
    /\ result.risk.worstSeverity = NULL <=> Len(result.domains) = 0

(* C30 witness: two populated domains, the first with a lower worst rank  *)
(* than the second, one of them severe at its latest record and the other *)
(* only earlier.                                                          *)
C30_Witness ==
  /\ pc = "risk"
  /\ Len(result.domains) = 2
  /\ result.domains[1].risk.worstSeverity.rank < result.domains[2].risk.worstSeverity.rank
  /\ result.risk.worstSeverity.rank = result.domains[2].risk.worstSeverity.rank
  /\ result.risk.currentSevere
  /\ \E i \in 1..2 :
       result.domains[i].risk.historicalSevere /\ ~result.domains[i].risk.currentSevere
====
